---- MODULE Spec2Model ----
(***************************************************************************)
(* Model of the DRA-OFK financial report generators.                       *)
(*                                                                         *)
(*   AIFM.py  convert_to_xml(files)   spreadsheet -> AIFMReportingInfo XML *)
(*   AIF.py   aif_xml(files)          spreadsheet -> AIFReportingInfo XML  *)
(*   OFKReport.py  generateXML(files)    workbook -> OFK formset XML       *)
(*   validate_XML_AIFM / validate_XML_AIF / validate_XML_OFKFiles, called  *)
(*   by each script on the *.xml files of the directory after generation   *)
(*                                                                         *)
(* A spreadsheet is the pandas DataFrame the code reads: a sequence of     *)
(* rows, each with the columns xmlTags, Id, XMLDescription, Input_1 ...    *)
(* Cells hold Python values (str, int, float, datetime); a str is a        *)
(* sequence of one-character strings so that len(), strip(), upper() and   *)
(* lower() are computed, not assumed.  An XML tree is the sequence of its  *)
(* elements in creation order, each naming its parent; the root element is *)
(* node 0 and carries the attributes.                                      *)
(***************************************************************************)
EXTENDS Integers, Sequences, FiniteSets, TLC

VARIABLES
    prog,      \* the script that runs: "AIFM", "AIF" or "OFK"
    files,     \* the argument of convert_to_xml / aif_xml: a list of file names
    disk,      \* the spreadsheets on disk: file name -> table
    today,     \* what datetime.today() gives during the run
    idx,       \* position of the for loop in files
    pc,        \* position in the body of the function
    df,        \* the table of the file being converted
    root,      \* the root element: its tag and attributes
    nodes,     \* the elements created under root, in creation order
    locals,    \* Python locals that hold elements across sections and files
    written,   \* the XML files written: output name -> document
    log,       \* the errors reported, in order
    xmls,      \* __main__: what glob.glob("*.xml") gave after the generator
    calls      \* the validations made by validate_XML_*, in order

vars == <<prog, files, disk, today, idx, pc, df, root, nodes, locals, written, log,
          xmls, calls>>

----------------------------------------------------------------------------
(* Python values                                                           *)

StrV(s) == [k |-> "str", v |-> s]
IntV(n) == [k |-> "int", v |-> n]
\* a float with one decimal, held in tenths; the readers turn integral
\* numbers into int, so a float cell is never integral
FltV(t) == [k |-> "float", v |-> t]
\* a pandas Timestamp: <<date text, time text>>
DtmV(d, t) == [k |-> "datetime", v |-> <<d, t>>]
\* df.replace(np.nan, '') leaves '' in every empty cell
Empty == StrV(<<>>)

IsStr(x) == x.k = "str"
IsInt(x) == x.k = "int"

\* x == y in Python, for the value kinds above
PyEq(x, y) == x.k = y.k /\ x.v = y.v

\* x == "" / x != ""
IsEmpty(x) == PyEq(x, Empty)
NotEmpty(x) == ~IsEmpty(x)

\* bool(x): what `x and ...` / `x or ...` test
Truthy(x) ==
    CASE x.k = "str" -> x.v # <<>>
      [] x.k = "int" -> x.v # 0
      [] x.k = "float" -> x.v # 0
      [] OTHER -> TRUE

DigitChar == <<"0", "1", "2", "3", "4", "5", "6", "7", "8", "9">>

RECURSIVE Digits(_)
Digits(n) ==
    IF n < 10 THEN <<DigitChar[n + 1]>>
    ELSE Digits(n \div 10) \o <<DigitChar[(n % 10) + 1]>>

Abs(n) == IF n < 0 THEN -n ELSE n

\* str(x)
PyStr(x) ==
    CASE x.k = "str" -> x.v
      [] x.k = "int" -> (IF x.v < 0 THEN <<"-">> ELSE <<>>) \o Digits(Abs(x.v))
      [] x.k = "float" -> (IF x.v < 0 THEN <<"-">> ELSE <<>>)
                          \o Digits(Abs(x.v) \div 10) \o <<".">>
                          \o <<DigitChar[(Abs(x.v) % 10) + 1]>>
      [] x.k = "datetime" -> x.v[1] \o <<" ">> \o x.v[2]

Whitespace == {" ", "\t", "\n"}

RECURSIVE LStrip(_)
LStrip(s) ==
    IF s # <<>> /\ Head(s) \in Whitespace THEN LStrip(Tail(s)) ELSE s

RECURSIVE RStrip(_)
RStrip(s) ==
    IF s # <<>> /\ s[Len(s)] \in Whitespace
    THEN RStrip(SubSeq(s, 1, Len(s) - 1)) ELSE s

\* s.strip()
Strip(s) == RStrip(LStrip(s))

LowerCase == <<"a", "b", "c", "d", "e", "f", "g", "h", "i", "j", "k", "l", "m",
               "n", "o", "p", "q", "r", "s", "t", "u", "v", "w", "x", "y", "z">>
UpperCase == <<"A", "B", "C", "D", "E", "F", "G", "H", "I", "J", "K", "L", "M",
               "N", "O", "P", "Q", "R", "S", "T", "U", "V", "W", "X", "Y", "Z">>

CharIndex(alphabet, c) ==
    IF \E i \in DOMAIN alphabet : alphabet[i] = c
    THEN CHOOSE i \in DOMAIN alphabet : alphabet[i] = c
    ELSE 0

\* s.upper() / s.lower()
Upper(s) ==
    [i \in DOMAIN s |->
        IF CharIndex(LowerCase, s[i]) = 0 THEN s[i]
        ELSE UpperCase[CharIndex(LowerCase, s[i])]]
Lower(s) ==
    [i \in DOMAIN s |->
        IF CharIndex(UpperCase, s[i]) = 0 THEN s[i]
        ELSE LowerCase[CharIndex(UpperCase, s[i])]]

\* the text the code gives an element: str(v).strip()
Text(x) == Strip(PyStr(x))

\* the reverse reading of a decimal text, to compare an emitted text with
\* the number it stands for; -1 for a text that is no unsigned decimal
RECURSIVE ParseUInt(_)
ParseUInt(s) ==
    IF s = <<>> THEN -1
    ELSE LET d == CharIndex(DigitChar, s[Len(s)]) - 1
             r == IF Len(s) = 1 THEN 0 ELSE ParseUInt(SubSeq(s, 1, Len(s) - 1))
         IN IF d < 0 \/ r < 0 THEN -1 ELSE 10 * r + d

----------------------------------------------------------------------------
(* DataFrame and ElementTree helpers                                       *)

\* [str(i) for i in range(a, b)]
StrRange(a, b) == {StrV(Digits(i)) : i \in a..(b - 1)}

\* df[df.Id.isin(ids)]: the rows whose Id is in ids, in table order
RowsById(t, ids) ==
    LET Test(r) == \E i \in ids : PyEq(r.Id, i) IN SelectSeq(t, Test)

\* df[df.xmlTags.isin(tags)]
RowsByTag(t, tags) ==
    LET Test(r) == r.xmlTags \in tags IN SelectSeq(t, Test)

\* {i[0]: i[1] for i in rows}: a dict in insertion order, as a sequence of
\* <<key, value>>; a repeated key keeps its place and takes the later value
RECURSIVE ToDict(_)
ToDict(pairs) ==
    IF pairs = <<>> THEN <<>>
    ELSE LET n == Len(pairs)
             d == ToDict(SubSeq(pairs, 1, n - 1))
             p == pairs[n]
         IN IF \E j \in DOMAIN d : d[j][1] = p[1]
            THEN [j \in DOMAIN d |-> IF d[j][1] = p[1] THEN p ELSE d[j]]
            ELSE Append(d, p)

\* the columns Input_1, Input_2, ... of a row are kept as the sequence Input
\* of its cells up to the last filled one; the cells after it are empty
RECURSIVE Filled(_)
Filled(ins) ==
    IF ins = <<>> THEN <<>>
    ELSE IF ins[Len(ins)] = Empty THEN Filled(SubSeq(ins, 1, Len(ins) - 1))
    ELSE ins
\* row['Input_n']
In(r, n) == IF n <= Len(r.Input) THEN r.Input[n] ELSE Empty

\* df[...][['xmlTags', 'Input_1']] as a dict
TagDict(rows) == ToDict([i \in DOMAIN rows |-> <<rows[i].xmlTags, In(rows[i], 1)>>])

HasKey(d, key) == \E j \in DOMAIN d : d[j][1] = key
\* d[key]
Get(d, key) == d[CHOOSE j \in DOMAIN d : d[j][1] = key][2]

\* ET.SubElement(parent, tag) followed by .text = text
Sub(ns, parent, tag, text) ==
    Append(ns, [tag |-> tag, text |-> text, parent |-> parent])

NoErr == [kind |-> "none", msg |-> ""]
Err(kind, msg) == [kind |-> kind, msg |-> msg]
\* raise: the build keeps the elements made so far and stops
Raise(b, kind, msg) == [b EXCEPT !.err = Err(kind, msg)]
Ok(b) == b.err = NoErr
Emit(b, parent, tag, text) == [b EXCEPT !.nodes = Sub(b.nodes, parent, tag, text)]

\* root.set(key, value)
SetAttr(attrs, key, value) ==
    IF \E j \in DOMAIN attrs : attrs[j][1] = key
    THEN [j \in DOMAIN attrs |-> IF attrs[j][1] = key THEN <<key, value>> ELSE attrs[j]]
    ELSE Append(attrs, <<key, value>>)

Root == 0
\* a local that was never assigned / one that holds an element of the tree
\* of an earlier file of the batch
Unbound == -1
Stale == -2

\* ET.SubElement under the element a local holds; an element made under a
\* stale element belongs to the earlier tree and is stale itself
EmitAt(b, parent, tag, text) ==
    IF parent = Stale THEN b ELSE Emit(b, parent, tag, text)
\* the element the last EmitAt under parent made
Made(b, parent) == IF parent = Stale THEN Stale ELSE Len(b.nodes)
Bind(b, name, h) == [b EXCEPT !.loc = [b.loc EXCEPT ![name] = h]]

----------------------------------------------------------------------------
(* String literals of the code                                             *)

LitMIC == StrV(<<"M", "I", "C">>)
LitXXX == StrV(<<"X", "X", "X">>)
LitOTC == StrV(<<"O", "T", "C">>)
LitNOT == StrV(<<"N", "O", "T">>)
LitOTH == StrV(<<"O", "T", "H">>)
LitEUR == StrV(<<"E", "U", "R">>)
LitNTA_NTA_NOTA == StrV(<<"N", "T", "A", "_", "N", "T", "A", "_", "N", "O", "T", "A">>)

\* strftime('%Y-%m-%dT%H:%M:%S') of datetime.today()
Pad2(n) == IF n < 10 THEN <<"0">> \o Digits(n) ELSE Digits(n)
StrfDateTime(d) ==
    Digits(d.year) \o <<"-">> \o Pad2(d.month) \o <<"-">> \o Pad2(d.day)
    \o <<"T">> \o Pad2(d.hour) \o <<":">> \o Pad2(d.minute) \o <<":">> \o Pad2(d.second)

----------------------------------------------------------------------------
(* AIFM.py convert_to_xml: the body of the for loop, section by section.   *)
(* Each section maps the build b = [err, root, nodes, loc] to the build    *)
(* after it; err names the exception the section raised, if any.           *)

\* type(x) != int or x < 0
NotUnsignedInteger(x) == ~IsInt(x) \/ x.v < 0

\* headerFileKeys[0][1] and headerFileKeys[1][1] == ""
AIFMHeaderEmpty(headerFileKeys) ==
    Truthy(In(headerFileKeys[1], 1)) /\ IsEmpty(In(headerFileKeys[2], 1))

AIFMSchemaLocation == <<"A", "I", "F", "M", "D", "_", "D", "A", "T", "M", "A", "N",
                        "_", "V", "1", ".", "2", ".", "x", "s", "d">>
XsiNamespace == <<"h", "t", "t", "p", ":", "/", "/", "w", "w", "w", ".", "w", "3",
                  ".", "o", "r", "g", "/", "2", "0", "0", "1", "/", "X", "M", "L",
                  "S", "c", "h", "e", "m", "a", "-", "i", "n", "s", "t", "a", "n",
                  "c", "e">>

\* a header that stamps the year of generation on the second header value
AIFMHeaderStamped(t, now, b) ==
    LET headerFileKeys == RowsById(t, StrRange(1, 4)) IN
    IF Len(headerFileKeys) < 2 THEN Raise(b, "IndexError", "list index out of range")
    ELSE IF AIFMHeaderEmpty(headerFileKeys)
    THEN Raise(b, "EmptyValueError",
               " " \o headerFileKeys[1].xmlTags \o " and " \o headerFileKeys[2].xmlTags
               \o " fields cannot be empty! ")
    ELSE LET a1 == SetAttr(<<>>, "xsi:noNamespaceSchemaLocation", AIFMSchemaLocation)
             a2 == SetAttr(a1, "CreationDateAndTime", StrfDateTime(now))
             a3 == SetAttr(a2, headerFileKeys[1].xmlTags, Text(In(headerFileKeys[1], 1)))
             a4 == SetAttr(a3, headerFileKeys[2].xmlTags,
                           Text(In(headerFileKeys[2], 1)) \o Digits(now.year))
             a5 == SetAttr(a4, "xmlns:xsi", XsiNamespace)
         IN [b EXCEPT !.root = [tag |-> "AIFMReportingInfo", attrs |-> a5],
                      !.nodes = <<>>]

AIFMHeader(t, now, b) ==
    LET headerFileKeys == RowsById(t, StrRange(1, 4)) IN
    IF Len(headerFileKeys) < 2 THEN Raise(b, "IndexError", "list index out of range")
    ELSE IF AIFMHeaderEmpty(headerFileKeys)
    THEN Raise(b, "EmptyValueError",
               " " \o headerFileKeys[1].xmlTags \o " and " \o headerFileKeys[2].xmlTags
               \o " fields cannot be empty! ")
    ELSE LET a1 == SetAttr(<<>>, "xsi:noNamespaceSchemaLocation", AIFMSchemaLocation)
             a2 == SetAttr(a1, "CreationDateAndTime", StrfDateTime(now))
             a3 == SetAttr(a2, headerFileKeys[1].xmlTags, Text(In(headerFileKeys[1], 1)))
             a4 == SetAttr(a3, headerFileKeys[2].xmlTags, Text(In(headerFileKeys[2], 1)))
             a5 == SetAttr(a4, "xmlns:xsi", XsiNamespace)
         IN [b EXCEPT !.root = [tag |-> "AIFMReportingInfo", attrs |-> a5],
                      !.nodes = <<>>]

DateTags == {"ReportingPeriodStartDate", "ReportingPeriodEndDate"}

\* for k, v in headerSectionKeys.items() of rows 4-9
RECURSIVE AIFMRecordInfoLoop(_, _, _, _)
AIFMRecordInfoLoop(b, parent, items, i) ==
    IF i > Len(items) \/ ~Ok(b) THEN b
    ELSE LET k == items[i][1]
             v == items[i][2]
         IN IF NotEmpty(v)
            THEN IF k \notin DateTags
                 THEN AIFMRecordInfoLoop(Emit(b, parent, k, Text(v)), parent, items, i + 1)
                 ELSE IF v.k = "datetime"
                      \* str(v.date()).strip()
                      THEN AIFMRecordInfoLoop(Emit(b, parent, k, Strip(v.v[1])),
                                              parent, items, i + 1)
                      ELSE Raise(Emit(b, parent, k, <<>>), "AttributeError",
                                 "object has no attribute 'date'")
            ELSE Raise(b, "EmptyValueError", k \o " field cannot be empty!")

AIFMRecordInfoSection(t, b) ==
    LET headerSectionKeys == TagDict(RowsById(t, StrRange(4, 10)))
        b1 == Emit(b, Root, "AIFMRecordInfo", <<>>)
        AIFMRecordInfo == Len(b1.nodes)
    IN AIFMRecordInfoLoop(Bind(b1, "AIFMRecordInfo", AIFMRecordInfo),
                          AIFMRecordInfo, headerSectionKeys, 1)

\* headerSectionKeys[...FrequencyCode] or headerSectionKeys[...ContentsCode] != ""
AIFMChangeQuarterRequired(d) ==
    Truthy(Get(d, "AIFMReportingObligationChangeFrequencyCode"))
    \/ NotEmpty(Get(d, "AIFMReportingObligationChangeContentsCode"))

\* headerSectionKeys['QuestionNumber'] and headerSectionKeys['AssumptionDescription'] == ""
AssumptionGuard(d) ==
    Truthy(Get(d, "QuestionNumber")) /\ IsEmpty(Get(d, "AssumptionDescription"))

MaxAssumptionDescription == 300

\* len(x) > n; len() of a number is a TypeError
LenExceeds(x, n) == Len(x.v) > n

\* the Assumptions block, the same in AIFM.py and AIF.py
Assumptions(d, b, parent) ==
    IF AssumptionGuard(d)
    THEN IF LenExceeds(Get(d, "AssumptionDescription"), MaxAssumptionDescription)
         THEN Raise(b, "LengthValueRequiredError",
                    "AssumptionDescription string required in this field should not be greater 300!")
         ELSE Emit(Emit(b, parent, "QuestionNumber", Text(Get(d, "QuestionNumber"))),
                   parent, "AssumptionDescription", Text(Get(d, "AssumptionDescription")))
    ELSE b

\* rows 10-15: the change codes, LastReportingFlag and the assumption
AIFMChangeSection(t, b) ==
    LET d == TagDict(RowsById(t, StrRange(10, 16)))
        AIFMRecordInfo == b.loc["AIFMRecordInfo"]
        freq == Get(d, "AIFMReportingObligationChangeFrequencyCode")
        cont == Get(d, "AIFMReportingObligationChangeContentsCode")
        quar == Get(d, "AIFMReportingObligationChangeQuarter")
        flag == Get(d, "LastReportingFlag")
        b1 == IF NotEmpty(freq)
              THEN Emit(b, AIFMRecordInfo, "AIFMReportingObligationChangeFrequencyCode", Text(freq))
              ELSE b
        b2 == IF NotEmpty(cont)
              THEN Emit(b1, AIFMRecordInfo, "AIFMReportingObligationChangeContentsCode", Text(cont))
              ELSE b1
        b3 == IF AIFMChangeQuarterRequired(d)
              THEN IF NotEmpty(quar)
                   THEN Emit(b2, AIFMRecordInfo, "AIFMReportingObligationChangeQuarter", Text(quar))
                   ELSE Raise(b2, "EmptyValueError",
                              "AIFMReportingObligationChangeQuarter field cannot be empty!")
              ELSE b2
        b4 == IF ~Ok(b3) THEN b3
              ELSE IF NotEmpty(flag)
              THEN Emit(b3, AIFMRecordInfo, "LastReportingFlag", Strip(Lower(PyStr(flag))))
              ELSE Raise(b3, "EmptyValueError", "LastReportingFlag field cannot be empty!")
    IN IF ~Ok(b4) THEN b4 ELSE Assumptions(d, b4, AIFMRecordInfo)

\* for k, v in headerSectionKeys.items() of rows 16-21
RECURSIVE RequiredLoop(_, _, _, _, _)
RequiredLoop(b, parent, items, i, suffix) ==
    IF i > Len(items) \/ ~Ok(b) THEN b
    ELSE LET k == items[i][1]
             v == items[i][2]
         IN IF NotEmpty(v)
            THEN RequiredLoop(EmitAt(b, parent, k, Text(v)), parent, items, i + 1, suffix)
            ELSE Raise(b, "EmptyValueError", k \o suffix)

AIFMSection16(t, b) ==
    RequiredLoop(b, b.loc["AIFMRecordInfo"], TagDict(RowsById(t, StrRange(16, 22))), 1,
                 " field cannot be empty!")

\* AIMFIdentifiers['ReportingMemberState'] and AIMFIdentifiers['ReportingMemberState'] != ""
AIFMNationalGuard(d) ==
    Truthy(Get(d, "ReportingMemberState")) /\ NotEmpty(Get(d, "ReportingMemberState"))

\* rows 22-25
AIFMIdentifierSection(t, b) ==
    LET AIMFIdentifiers == TagDict(RowsById(t, StrRange(22, 26)))
        b1 == Emit(b, b.loc["AIFMRecordInfo"], "AIFMCompleteDescription", <<>>)
        AIFMCompleteDescription == Len(b1.nodes)
        b2 == Bind(b1, "AIFMCompleteDescription", AIFMCompleteDescription)
    IN IF AIMFIdentifiers = <<>> THEN b2
       ELSE LET b3 == Emit(b2, AIFMCompleteDescription, "AIFMIdentifier", <<>>)
                AIFMIdentifier == Len(b3.nodes)
                lei == Get(AIMFIdentifiers, "AIFMIdentifierLEI")
                bic == Get(AIMFIdentifiers, "AIFMIdentifierBIC")
                b4 == IF NotEmpty(lei)
                      THEN Emit(b3, AIFMIdentifier, "AIFMIdentifierLEI", Text(lei)) ELSE b3
                b5 == IF NotEmpty(bic)
                      THEN Emit(b4, AIFMIdentifier, "AIFMIdentifierBIC", Text(bic)) ELSE b4
            IN IF AIFMNationalGuard(AIMFIdentifiers)
               THEN Emit(Emit(b5, AIFMIdentifier, "ReportingMemberState",
                              Text(Get(AIMFIdentifiers, "ReportingMemberState"))),
                         AIFMIdentifier, "AIFMNationalCode",
                         Text(Get(AIMFIdentifiers, "AIFMNationalCode")))
               ELSE b5

\* ranks = [i for i in range(1, 6)]
Ranks == <<1, 2, 3, 4, 5>>
PrincipalMRows == {StrV(<<"1", "s", "t">>), StrV(<<"2", "n", "d">>), StrV(<<"3", "r", "d">>),
                   StrV(<<"4", "t", "h">>), StrV(<<"5", "t", "h">>)}
\* principalMarket[0] in ['MIC', 'XXX', 'OTC', 'NOT']
MarketCodeTypes == {LitMIC, LitXXX, LitOTC, LitNOT}
\* the test of the shape of the code type instead of its value
InMarketCodeTypesByLength(x) == IsStr(x) /\ Len(x.v) = 3
InMarketCodeTypes(x) == \E c \in MarketCodeTypes : PyEq(x, c)

MaxMarketCode == 4

\* the Ranking text of the market row met at position counter of the selection
MarketRanking(counter) == Digits(Ranks[counter + 1])

\* the body of `for principalMarket in principalMarkets`, for one row
\* principalMarket = [XMLDescription, Input_1, Input_2]
AIFMPrincipalMarket(b, AIFMPrincipalMarkets, principalMarket, counter) ==
    IF ~InMarketCodeTypes(principalMarket[1])
    THEN Raise(b, "DomainValueError",
               "Required principal market values in for AIFM trades are 'MIC', 'XXX', 'OTC' & 'NOT'. Check values in rows 32-36, column C of template")
    ELSE
    LET b1 == Emit(b, AIFMPrincipalMarkets, "AIFMFivePrincipalMarket", <<>>)
        AIFMFivePrincipalMarket == Len(b1.nodes)
        b2 == Emit(b1, AIFMFivePrincipalMarket, "Ranking", <<>>)
    IN IF counter + 1 > Len(Ranks) THEN Raise(b2, "IndexError", "list index out of range")
       ELSE
       LET b3 == [b2 EXCEPT !.nodes[Len(b2.nodes)].text = MarketRanking(counter)]
           b4 == Emit(b3, AIFMFivePrincipalMarket, "MarketIdentification", <<>>)
           MarketIdentification == Len(b4.nodes)
           b5 == Emit(b4, MarketIdentification, "MarketCodeType", Text(principalMarket[1]))
           isMIC == PyEq(principalMarket[1], LitMIC)
       IN IF isMIC /\ IsEmpty(principalMarket[2])
          THEN Raise(b5, "EmptyValueError", "MarketCode is required for MIC market codes!")
          ELSE IF isMIC /\ ~IsStr(principalMarket[2])
          THEN Raise(b5, "TypeError", "object has no len()")
          ELSE IF isMIC /\ LenExceeds(principalMarket[2], MaxMarketCode)
          THEN Raise(b5, "LengthValueRequiredError",
                     "Maximum length of 4 is required for MarketCode!")
          ELSE
          LET b6 == IF isMIC
                    THEN Emit(b5, MarketIdentification, "MarketCode", Text(principalMarket[2]))
                    ELSE b5
          IN IF ~PyEq(principalMarket[1], LitNOT)
             THEN IF NotUnsignedInteger(principalMarket[3])
                  THEN Raise(b6, "UnassinedIntegerError",
                             "AggregatedValueAmount must be not contain decimals & should not be a negative number. Check value in row 32-36 column D")
                  ELSE Emit(b6, AIFMFivePrincipalMarket, "AggregatedValueAmount",
                            Text(principalMarket[3]))
             ELSE b6

RECURSIVE AIFMPrincipalMarketsLoop(_, _, _, _)
AIFMPrincipalMarketsLoop(b, parent, principalMarkets, i) ==
    IF i > Len(principalMarkets) \/ ~Ok(b) THEN b
    ELSE AIFMPrincipalMarketsLoop(
             AIFMPrincipalMarket(b, parent, principalMarkets[i], i - 1),
             parent, principalMarkets, i + 1)

AIFMPrincipalMarketsSection(t, b) ==
    LET rows == RowsById(t, PrincipalMRows)
        principalMarkets ==
            [i \in DOMAIN rows |-> <<rows[i].XMLDescription, In(rows[i], 1), In(rows[i], 2)>>]
        b1 == Emit(b, b.loc["AIFMCompleteDescription"], "AIFMPrincipalMarkets", <<>>)
    IN AIFMPrincipalMarketsLoop(b1, Len(b1.nodes), principalMarkets, 1)

\* principalIRow = [i for i in range(1, 6)]
PrincipalIRow == {IntV(i) : i \in 1..5}

\* the body of `for principalInstrument in principalInstruments`, for one row
\* principalInstrument = [Id, XMLDescription, Input_1]
AIFMPrincipalInstrument(b, AIFMPrincipalInstruments, principalInstrument) ==
    IF IsEmpty(principalInstrument[2])
    THEN Raise(b, "EmptyValueError",
               "SubAssetType field cannot be empty! Check values in rows 40-44, column C of template")
    ELSE IF IsEmpty(principalInstrument[3])
    THEN Raise(b, "EmptyValueError",
               "AggregatedValueAmount field cannot be empty! Check values in rows 40-44, column C of template")
    ELSE
    LET b1 == Emit(b, AIFMPrincipalInstruments, "AIFMPrincipalInstrument", <<>>)
        AIFMPrincipalInstrument_ == Len(b1.nodes)
        b2 == Emit(b1, AIFMPrincipalInstrument_, "Ranking", Text(principalInstrument[1]))
        b3 == Emit(b2, AIFMPrincipalInstrument_, "SubAssetType", Text(principalInstrument[2]))
    IN IF ~PyEq(principalInstrument[2], LitNTA_NTA_NOTA)
       THEN IF NotUnsignedInteger(principalInstrument[3])
            THEN Raise(b3, "UnassinedIntegerError",
                       "AggregatedValueAmount must be UnassigneIinteger (not contain decimals & not negative). Check value in row 40-44 column D")
            ELSE Emit(b3, AIFMPrincipalInstrument_, "AggregatedValueAmount",
                      Text(principalInstrument[3]))
       ELSE b3

RECURSIVE AIFMPrincipalInstrumentsLoop(_, _, _, _)
AIFMPrincipalInstrumentsLoop(b, parent, principalInstruments, i) ==
    IF i > Len(principalInstruments) \/ ~Ok(b) THEN b
    ELSE AIFMPrincipalInstrumentsLoop(
             AIFMPrincipalInstrument(b, parent, principalInstruments[i]),
             parent, principalInstruments, i + 1)

AIFMPrincipalInstrumentsSection(t, b) ==
    LET rows == RowsById(t, PrincipalIRow)
        principalInstruments ==
            [i \in DOMAIN rows |-> <<rows[i].Id, rows[i].XMLDescription, In(rows[i], 1)>>]
        b1 == Emit(b, b.loc["AIFMCompleteDescription"], "AIFMPrincipalInstruments", <<>>)
    IN AIFMPrincipalInstrumentsLoop(b1, Len(b1.nodes), principalInstruments, 1)

\* principalValues['AUMAmountInBaseCurrency'] and principalValues['BaseCurrency'] != ""
AIFMBaseCurrencyGuard(d) ==
    Truthy(Get(d, "AUMAmountInBaseCurrency")) /\ NotEmpty(Get(d, "BaseCurrency"))

\* principalValues['FXEURReferenceRateType'] and principalValues['FXEURRate'] != ""
AIFMFXGuard(d) ==
    Truthy(Get(d, "FXEURReferenceRateType")) /\ NotEmpty(Get(d, "FXEURRate"))

\* str(principalValues['BaseCurrency']).upper().strip()
\*     or principalValues['FXEUROtherReferenceRateDescription'] == "OTH"
AIFMOtherDescriptionGuard(d) ==
    Strip(Upper(PyStr(Get(d, "BaseCurrency")))) # <<>>
    \/ PyEq(Get(d, "FXEUROtherReferenceRateDescription"), LitOTH)

\* the AIFMBaseCurrencyDescription block
AIFMBaseCurrency(d, b, AIFMBaseCurrencyDescription) ==
    IF ~AIFMBaseCurrencyGuard(d) THEN b
    ELSE IF NotUnsignedInteger(Get(d, "AUMAmountInBaseCurrency"))
    THEN Raise(b, "UnassinedIntegerError",
               "AUMAmountInBaseCurrency must be UnassigneIinteger (not contain decimals & not negative). Check value in row 47 column D")
    ELSE
    LET cur == Strip(Upper(PyStr(Get(d, "BaseCurrency"))))
        b1 == Emit(b, AIFMBaseCurrencyDescription, "BaseCurrency", cur)
        b2 == Emit(b1, AIFMBaseCurrencyDescription, "AUMAmountInBaseCurrency",
                   Text(Get(d, "AUMAmountInBaseCurrency")))
        b3 == IF cur # LitEUR.v
              THEN IF AIFMFXGuard(d)
                   THEN Emit(Emit(b2, AIFMBaseCurrencyDescription, "FXEURReferenceRateType",
                                  Text(Get(d, "FXEURReferenceRateType"))),
                             AIFMBaseCurrencyDescription, "FXEURRate",
                             Text(Get(d, "FXEURRate")))
                   ELSE Raise(b2, "EmptyValueError",
                              "FXEURReferenceRateType or FXEURRate fields cannot be empty! Check value in rows 49-50 column D")
              ELSE b2
    IN IF ~Ok(b3) THEN b3
       ELSE IF AIFMOtherDescriptionGuard(d)
       THEN Emit(b3, AIFMBaseCurrencyDescription, "FXEUROtherReferenceRateDescription",
                 Text(Get(d, "FXEUROtherReferenceRateDescription")))
       ELSE b3

\* rows 33-38 with AUMAmountInEuro optional: an empty cell is left out
AIFMValuesSectionOptionalEuro(t, b) ==
    LET principalValues == TagDict(RowsById(t, StrRange(33, 39)))
        AIFMCompleteDescription == b.loc["AIFMCompleteDescription"]
        euro == Get(principalValues, "AUMAmountInEuro")
    IN IF NotEmpty(euro) /\ NotUnsignedInteger(euro)
       THEN Raise(b, "UnassinedIntegerError",
                  "AUMAmountInEuro must be UnassigneIinteger (not contain decimals and not negative). Check value in row 46 column D")
       ELSE LET b1 == IF NotEmpty(euro)
                      THEN Emit(b, AIFMCompleteDescription, "AUMAmountInEuro", Text(euro))
                      ELSE b
                b2 == Emit(b1, AIFMCompleteDescription, "AIFMBaseCurrencyDescription", <<>>)
            IN AIFMBaseCurrency(principalValues, b2, Len(b2.nodes))

\* rows 33-38
AIFMValuesSection(t, b) ==
    LET principalValues == TagDict(RowsById(t, StrRange(33, 39)))
        AIFMCompleteDescription == b.loc["AIFMCompleteDescription"]
        euro == Get(principalValues, "AUMAmountInEuro")
    IN IF IsEmpty(euro)
       THEN Raise(b, "EmptyValueError",
                  "AUMAmountInEuro field cannot be empty! Check value in row 46 column D")
       ELSE IF NotUnsignedInteger(euro)
       THEN Raise(b, "UnassinedIntegerError",
                  "AUMAmountInEuro must be UnassigneIinteger (not contain decimals and not negative). Check value in row 46 column D")
       ELSE LET b1 == Emit(b, AIFMCompleteDescription, "AUMAmountInEuro", Text(euro))
                b2 == Emit(b1, AIFMCompleteDescription, "AIFMBaseCurrencyDescription", <<>>)
            IN AIFMBaseCurrency(principalValues, b2, Len(b2.nodes))

----------------------------------------------------------------------------
(* Spreadsheets                                                            *)

\* one row of an AIFM sheet: df.columns = ['xmlTags', 'Id', 'XMLDescription',
\* 'Input_1', 'Input_2'], xmlTags already stripped of '<' and '>'
Row(tag, id, desc, in1, in2) ==
    [xmlTags |-> tag, Id |-> id, XMLDescription |-> desc, Input |-> Filled(<<in1, in2>>)]

\* a filled-in AIFM template that converts without error
AIFMTemplate == <<
    Row("ReportingMemberState", StrV(Digits(1)), Empty, StrV(<<"N", "L">>), Empty),
    Row("Version", StrV(Digits(2)), Empty, StrV(<<"1", ".", "2">>), Empty),
    Row("CreationDateAndTime", StrV(Digits(3)), Empty, Empty, Empty),
    Row("FilingType", StrV(Digits(4)), Empty, StrV(<<"I", "N", "I", "T">>), Empty),
    Row("AIFMContentType", StrV(Digits(5)), Empty, IntV(1), Empty),
    Row("ReportingPeriodStartDate", StrV(Digits(6)), Empty, DtmV(<<"2", "0", "2", "0", "-", "0", "1", "-", "0", "1">>, <<"0", "0", ":", "0", "0", ":", "0", "0">>), Empty),
    Row("ReportingPeriodEndDate", StrV(Digits(7)), Empty, DtmV(<<"2", "0", "2", "0", "-", "0", "3", "-", "3", "1">>, <<"0", "0", ":", "0", "0", ":", "0", "0">>), Empty),
    Row("ReportingPeriodType", StrV(Digits(8)), Empty, StrV(<<"Q", "1">>), Empty),
    Row("ReportingPeriodYear", StrV(Digits(9)), Empty, IntV(2020), Empty),
    Row("AIFMReportingObligationChangeFrequencyCode", StrV(Digits(10)), Empty, Empty, Empty),
    Row("AIFMReportingObligationChangeContentsCode", StrV(Digits(11)), Empty, Empty, Empty),
    Row("AIFMReportingObligationChangeQuarter", StrV(Digits(12)), Empty, Empty, Empty),
    Row("LastReportingFlag", StrV(Digits(13)), Empty, StrV(<<"f", "a", "l", "s", "e">>), Empty),
    Row("QuestionNumber", StrV(Digits(14)), Empty, Empty, Empty),
    Row("AssumptionDescription", StrV(Digits(15)), Empty, Empty, Empty),
    Row("AIFMReportingCode", StrV(Digits(16)), Empty, IntV(1), Empty),
    Row("AIFMJurisdiction", StrV(Digits(17)), Empty, StrV(<<"N", "L">>), Empty),
    Row("AIFMNationalCode", StrV(Digits(18)), Empty, IntV(12), Empty),
    Row("AIFMName", StrV(Digits(19)), Empty, StrV(<<"F", "u", "n", "d">>), Empty),
    Row("AIFMEEAFlag", StrV(Digits(20)), Empty, StrV(<<"t", "r", "u", "e">>), Empty),
    Row("AIFMNoReportingFlag", StrV(Digits(21)), Empty, StrV(<<"f", "a", "l", "s", "e">>), Empty),
    Row("AIFMIdentifierLEI", StrV(Digits(22)), Empty, Empty, Empty),
    Row("AIFMIdentifierBIC", StrV(Digits(23)), Empty, Empty, Empty),
    Row("ReportingMemberState", StrV(Digits(24)), Empty, Empty, Empty),
    Row("AIFMNationalCode", StrV(Digits(25)), Empty, Empty, Empty),
    Row("AIFMFivePrincipalMarket", StrV(<<"1", "s", "t">>), LitMIC, StrV(<<"X", "A", "M", "S">>), IntV(50)),
    Row("AIFMFivePrincipalMarket", StrV(<<"2", "n", "d">>), LitXXX, Empty, IntV(40)),
    Row("AIFMFivePrincipalMarket", StrV(<<"3", "r", "d">>), LitOTC, Empty, IntV(30)),
    Row("AIFMFivePrincipalMarket", StrV(<<"4", "t", "h">>), LitXXX, Empty, IntV(20)),
    Row("AIFMFivePrincipalMarket", StrV(<<"5", "t", "h">>), LitNOT, Empty, Empty),
    Row("AIFMPrincipalInstrument", IntV(1), StrV(<<"S", "E", "C">>), IntV(9), Empty),
    Row("AIFMPrincipalInstrument", IntV(2), StrV(<<"D", "E", "R">>), IntV(8), Empty),
    Row("AIFMPrincipalInstrument", IntV(3), StrV(<<"C", "I", "U">>), IntV(7), Empty),
    Row("AIFMPrincipalInstrument", IntV(4), LitNTA_NTA_NOTA, IntV(0), Empty),
    Row("AIFMPrincipalInstrument", IntV(5), LitNTA_NTA_NOTA, IntV(0), Empty),
    Row("AUMAmountInEuro", StrV(Digits(33)), Empty, IntV(100), Empty),
    Row("AUMAmountInBaseCurrency", StrV(Digits(34)), Empty, IntV(100), Empty),
    Row("BaseCurrency", StrV(Digits(35)), Empty, LitEUR, Empty),
    Row("FXEURReferenceRateType", StrV(Digits(36)), Empty, Empty, Empty),
    Row("FXEURRate", StrV(Digits(37)), Empty, Empty, Empty),
    Row("FXEUROtherReferenceRateDescription", StrV(Digits(38)), Empty, Empty, Empty)
>>

\* the sheet t with the cell (row Id id, column col) set to val
SetCell(t, id, n, val) ==
    LET set(r) == [j \in 1..(IF n > Len(r.Input) THEN n ELSE Len(r.Input)) |->
                      IF j = n THEN val ELSE In(r, j)]
    IN [i \in DOMAIN t |->
           IF PyEq(t[i].Id, id) THEN [t[i] EXCEPT !.Input = Filled(set(t[i]))] ELSE t[i]]
\* the sheet t with the cell (row tagged tag, column Input_n) set to val
SetTagCell(t, tag, n, val) ==
    LET set(r) == [j \in 1..(IF n > Len(r.Input) THEN n ELSE Len(r.Input)) |->
                      IF j = n THEN val ELSE In(r, j)]
    IN [i \in DOMAIN t |->
           IF t[i].xmlTags = tag THEN [t[i] EXCEPT !.Input = Filled(set(t[i]))] ELSE t[i]]
SetDescription(t, id, val) ==
    [i \in DOMAIN t |-> IF PyEq(t[i].Id, id) THEN [t[i] EXCEPT !.XMLDescription = val] ELSE t[i]]
SetInput(t, n, val) == SetCell(t, StrV(Digits(n)), 1, val)

\* cell values tried in the inputs
ValNL == StrV(<<"N", "L">>)
ValUSD == StrV(<<"u", "s", "d">>)
ValECB == StrV(<<"E", "C", "B">>)
ValBAD == StrV(<<"B", "A", "D">>)
ValXAMS == StrV(<<"X", "A", "M", "S">>)
ValXAMSX == StrV(<<"X", "A", "M", "S", "X">>)
ValNote == StrV(<<" ", "n", "o", "t", "e", " ">>)
AmountValues == {Empty, IntV(0), IntV(7), IntV(-3), FltV(15)}
CurrencyValues == {Empty, LitEUR, ValUSD}
RateTypeValues == {Empty, ValECB, LitOTH}
RateValues == {Empty, FltV(11)}
DescriptionValues == {Empty, ValNote}
MarketTypeValues == {LitMIC, LitOTC, LitNOT, ValBAD, IntV(7)}
MarketCodeValues == {Empty, ValXAMS, ValXAMSX}

\* a text of n characters
Chars(n) == StrV([i \in 1..n |-> "x"])

\* each required cell left empty, one at a time
AIFMRequiredIds == (4..9) \cup {13} \cup (16..21) \cup {33}
AIFMRequiredInputs == {SetInput(AIFMTemplate, n, Empty) : n \in AIFMRequiredIds}

\* the base-currency rows 34-38 in every combination
AIFMCurrencyInputs ==
    {SetInput(SetInput(SetInput(SetInput(SetInput(AIFMTemplate, 34, a), 35, c), 36, r), 37, x), 38, o) :
        a \in AmountValues, c \in CurrencyValues, r \in RateTypeValues,
        x \in RateValues, o \in DescriptionValues}

AIFMEuroInputs == {SetInput(AIFMTemplate, 33, a) : a \in AmountValues \cup {ValBAD}}

\* one principal-market row changed
SetMarket(t, id, type, code, amount) ==
    SetCell(SetCell(SetDescription(t, id, type), id, 1, code), id, 2, amount)
AIFMMarketInputs ==
    {SetMarket(AIFMTemplate, id, ty, c, a) :
        id \in PrincipalMRows, ty \in MarketTypeValues, c \in MarketCodeValues,
        a \in AmountValues}

\* the principal-market rows in every order
RowOrders(n) == {p \in [1..n -> 1..n] : \A i, j \in 1..n : p[i] = p[j] => i = j}
FirstMarketRow(t) == CHOOSE i \in DOMAIN t :
    /\ \E m \in PrincipalMRows : PyEq(t[i].Id, m)
    /\ \A j \in 1..(i - 1) : ~\E m \in PrincipalMRows : PyEq(t[j].Id, m)
PermuteMarkets(t, p) ==
    LET f == FirstMarketRow(t) - 1 IN
    [i \in DOMAIN t |-> IF i \in (f + 1)..(f + 5) THEN t[f + p[i - f]] ELSE t[i]]
AIFMPermutedInputs == {PermuteMarkets(AIFMTemplate, p) : p \in RowOrders(5)}

\* one principal-instrument row changed
SetInstrument(t, n, sub, amount) ==
    SetCell(SetDescription(t, IntV(n), sub), IntV(n), 1, amount)
AIFMInstrumentInputs ==
    {SetInstrument(AIFMTemplate, n, sub, a) :
        n \in {1, 4}, sub \in {Empty, ValBAD, LitNTA_NTA_NOTA}, a \in AmountValues}

\* QuestionNumber and AssumptionDescription
AIFMAssumptionInputs ==
    {SetInput(SetInput(AIFMTemplate, 14, q), 15, d) :
        q \in {Empty, IntV(3), IntV(0)},
        d \in {Empty, ValNote, Chars(MaxAssumptionDescription),
               Chars(MaxAssumptionDescription + 1)}}

\* the header cells, the change codes and the identifiers
AIFMHeaderInputs ==
    {SetInput(SetInput(AIFMTemplate, 1, a), 2, c) : a, c \in {Empty, ValECB}}
AIFMChangeInputs ==
    {SetInput(SetInput(SetInput(AIFMTemplate, 10, a), 11, c), 12, q) :
        a, c, q \in {Empty, ValECB, IntV(0)}}
AIFMIdentifierInputs ==
    {SetInput(SetInput(SetInput(AIFMTemplate, 22, l), 24, m), 25, n) :
        l, m, n \in {Empty, ValECB}}
AIFMDateInputs == {SetInput(AIFMTemplate, 6, ValNote), SetInput(AIFMTemplate, 7, IntV(7))}

\* two rows of the sheet exchanged: the rows whose Ids are str(m) and str(n)
RowIndex(t, n) == CHOOSE i \in DOMAIN t : PyEq(t[i].Id, StrV(Digits(n)))
SwapRows(t, m, n) ==
    [i \in DOMAIN t |-> IF i = RowIndex(t, m) THEN t[RowIndex(t, n)]
                        ELSE IF i = RowIndex(t, n) THEN t[RowIndex(t, m)]
                        ELSE t[i]]
\* the rows 4-9 and the rows 16-21 in other orders
AIFMReorderedInputs ==
    {SwapRows(AIFMTemplate, m, n) : m, n \in 4..9} \cup
    {SwapRows(AIFMTemplate, m, n) : m, n \in 16..21}

\* the spellings of a boolean flag
FlagValues ==
    {StrV(<<"f", "a", "l", "s", "e">>), StrV(<<"F", "A", "L", "S", "E">>),
     StrV(<<"F", "a", "l", "s", "e">>), StrV(<<"t", "r", "u", "e">>),
     StrV(<<"T", "R", "U", "E">>), StrV(<<" ", "T", "r", "u", "e">>)}
AIFMFlagInputs == {SetInput(AIFMTemplate, 13, f) : f \in FlagValues}

\* one violation in each section of the body that has one: the header, rows
\* 4-9, rows 10-15, rows 16-21, the markets, the instruments and rows 33-38
Violate(t, k) ==
    CASE k = 1 -> SetInput(t, 2, Empty)
      [] k = 2 -> SetInput(t, 8, Empty)
      [] k = 3 -> SetInput(t, 13, Empty)
      [] k = 4 -> SetInput(t, 19, Empty)
      [] k = 5 -> SetDescription(t, StrV(<<"2", "n", "d">>), ValBAD)
      [] k = 6 -> SetInstrument(t, 2, Empty, IntV(8))
      [] k = 7 -> SetInput(t, 33, IntV(-3))
RECURSIVE ViolateAll(_, _, _)
ViolateAll(t, S, k) ==
    IF k > 7 THEN t ELSE ViolateAll(IF k \in S THEN Violate(t, k) ELSE t, S, k + 1)
\* sheets with several violations at once
AIFMSeveralInputs ==
    {ViolateAll(AIFMTemplate, S, 1) : S \in {S \in SUBSET (1..7) : Cardinality(S) >= 2}}

AIFMInputs ==
    AIFMSeveralInputs \cup AIFMFlagInputs \cup AIFMRequiredInputs \cup AIFMCurrencyInputs \cup AIFMEuroInputs \cup AIFMMarketInputs
    \cup AIFMPermutedInputs \cup AIFMInstrumentInputs \cup AIFMAssumptionInputs
    \cup AIFMHeaderInputs \cup AIFMChangeInputs \cup AIFMIdentifierInputs
    \cup AIFMDateInputs \cup AIFMReorderedInputs

\* the sheets of the batches of several files: two that convert and two that
\* fail, one early and one late in the body
AIFMValidUSD ==
    SetInput(SetInput(SetInput(AIFMTemplate, 35, ValUSD), 36, ValECB), 37, FltV(11))
AIFMBatchInputs ==
    {AIFMTemplate, AIFMValidUSD, SetInput(AIFMTemplate, 4, Empty),
     SetInput(AIFMTemplate, 33, IntV(-3))}

----------------------------------------------------------------------------
(* AIF.py aif_xml: the body of the for loop, section by section            *)

\* ET.SubElement under the element held by the local `name`; a local that
\* was never assigned raises UnboundLocalError
EmitLocal(b, name, tag, text) ==
    IF b.loc[name] = Unbound
    THEN Raise(b, "UnboundLocalError",
               "local variable '" \o name \o "' referenced before assignment")
    ELSE EmitAt(b, b.loc[name], tag, text)

\* SubElement under parent, the new element kept in the local `name`
EmitBind(b, parent, tag, name) ==
    LET b1 == EmitAt(b, parent, tag, <<>>) IN Bind(b1, name, Made(b1, parent))

AIFSchemaLocation == <<"A", "I", "F", "M", "D", "_", "D", "A", "T", "A", "I", "F",
                       "_", "V", "1", ".", "2", ".", "x", "s", "d">>

\* headerFileKeys[0][1] and headerFileKeys[1][1] == ""
AIFHeaderEmpty(headerFileKeys) ==
    Truthy(In(headerFileKeys[1], 1)) /\ IsEmpty(In(headerFileKeys[2], 1))

AIFHeader(t, now, b) ==
    LET headerFileKeys == RowsById(t, StrRange(1, 4)) IN
    IF Len(headerFileKeys) < 2 THEN Raise(b, "IndexError", "list index out of range")
    ELSE IF AIFHeaderEmpty(headerFileKeys)
    THEN Raise(b, "EmptyValueError",
               headerFileKeys[1].xmlTags \o " and " \o headerFileKeys[2].xmlTags
               \o " fields cannot be empty!")
    ELSE LET a1 == SetAttr(<<>>, "xsi:noNamespaceSchemaLocation", AIFSchemaLocation)
             \* strftime('%Y-%m-%dT%H:%M:%S.0Z')
             a2 == SetAttr(a1, "CreationDateAndTime", StrfDateTime(now) \o <<".", "0", "Z">>)
             a3 == SetAttr(a2, headerFileKeys[1].xmlTags, Text(In(headerFileKeys[1], 1)))
             a4 == SetAttr(a3, headerFileKeys[2].xmlTags, Text(In(headerFileKeys[2], 1)))
             a5 == SetAttr(a4, "xmlns:xsi", XsiNamespace)
         IN [b EXCEPT !.root = [tag |-> "AIFReportingInfo", attrs |-> a5],
                      !.nodes = <<>>]

\* rows 4-9
AIFRecordInfoSection(t, b) ==
    LET headerSectionKeys == TagDict(RowsById(t, StrRange(4, 10)))
        b1 == EmitBind(b, Root, "AIFRecordInfo", "AIFRecordInfo")
    IN AIFMRecordInfoLoop(b1, b1.loc["AIFRecordInfo"], headerSectionKeys, 1)

\* headerSectionKeys[...FrequencyCode] or headerSectionKeys[...ContentsCode] != ""
AIFChangeQuarterRequired(d) ==
    Truthy(Get(d, "AIFReportingObligationChangeFrequencyCode"))
    \/ NotEmpty(Get(d, "AIFReportingObligationChangeContentsCode"))

\* rows 10-15
AIFChangeSection(t, b) ==
    LET d == TagDict(RowsById(t, StrRange(10, 16)))
        AIFRecordInfo == b.loc["AIFRecordInfo"]
        freq == Get(d, "AIFReportingObligationChangeFrequencyCode")
        cont == Get(d, "AIFReportingObligationChangeContentsCode")
        quar == Get(d, "AIFReportingObligationChangeQuarter")
        flag == Get(d, "LastReportingFlag")
        b1 == IF NotEmpty(freq)
              THEN Emit(b, AIFRecordInfo, "AIFReportingObligationChangeFrequencyCode", Text(freq))
              ELSE b
        b2 == IF NotEmpty(cont)
              THEN Emit(b1, AIFRecordInfo, "AIFReportingObligationChangeContentsCode", Text(cont))
              ELSE b1
        b3 == IF AIFChangeQuarterRequired(d)
              THEN IF NotEmpty(quar)
                   THEN Emit(b2, AIFRecordInfo, "AIFReportingObligationChangeQuarter", Text(quar))
                   ELSE Raise(b2, "EmptyValueError",
                              "AIFReportingObligationChangeQuarter field cannot be empty!")
              ELSE b2
        b4 == IF ~Ok(b3) THEN b3
              ELSE IF NotEmpty(flag)
              THEN Emit(b3, AIFRecordInfo, "LastReportingFlag", Strip(Lower(PyStr(flag))))
              ELSE Raise(b3, "EmptyValueError", "LastReportingFlag field cannot be empty!")
    IN IF ~Ok(b4) THEN b4 ELSE Assumptions(d, b4, AIFRecordInfo)

\* rows 16-23
AIFSection16(t, b) ==
    RequiredLoop(b, b.loc["AIFRecordInfo"], TagDict(RowsById(t, StrRange(16, 24))), 1,
                 " field cannot be empty!")

\* (ReportingMemberState != "" and AIFNationalCode == "")
\*     or (AIFNationalCode != "" and ReportingMemberState == "")
AIFIdentifierConditional(d) ==
    \/ NotEmpty(Get(d, "ReportingMemberState")) /\ IsEmpty(Get(d, "AIFNationalCode"))
    \/ NotEmpty(Get(d, "AIFNationalCode")) /\ IsEmpty(Get(d, "ReportingMemberState"))

\* AIFIdentification = ET.SubElement(AIFPrincipalInfo, 'AIFIdentification') /
\* PrimeBrokers = ET.SubElement(AIFDescription, 'PrimeBrokers') and
\* PrimeBrokerIdentification = ET.SubElement(PrimeBrokers, ...)
MakeContainer(b, name) ==
    IF name = "AIFIdentification"
    THEN EmitBind(b, b.loc["AIFPrincipalInfo"], "AIFIdentification", "AIFIdentification")
    ELSE LET b1 == Emit(b, b.loc["AIFDescription"], "PrimeBrokers", <<>>)
         IN EmitBind(b1, Len(b1.nodes), "PrimeBrokerIdentification",
                     "PrimeBrokerIdentification")

\* for k, v in AIFIdentifiers.items(), with its counter: the container named
\* by `name` is made at the first item only, and only when that item is
\* filled; every later filled item goes under whatever `name` holds
RECURSIVE IdentificationLoop(_, _, _, _)
IdentificationLoop(b, items, i, name) ==
    IF i > Len(items) \/ ~Ok(b) THEN b
    ELSE LET k == items[i][1]
             v == items[i][2]
             counter == i - 1
         IN IF NotEmpty(v) /\ counter = 0
            THEN IdentificationLoop(EmitLocal(MakeContainer(b, name), name, k, Text(v)),
                                    items, i + 1, name)
            ELSE IF NotEmpty(v) /\ counter # 0
            THEN IdentificationLoop(EmitLocal(b, name, k, Text(v)), items, i + 1, name)
            ELSE IdentificationLoop(b, items, i + 1, name)

\* {i[0]: i[1].strip() for i in AIFIdentifiers} of rows 24-32
AIFIdentifiersOf(t) ==
    LET rows == RowsById(t, StrRange(24, 33)) IN
    ToDict([i \in DOMAIN rows |->
               <<rows[i].xmlTags,
                 IF IsStr(In(rows[i], 1)) THEN StrV(Strip(In(rows[i], 1).v))
                 ELSE In(rows[i], 1)>>])
AIFIdentifiersAllStr(t) ==
    \A r \in {RowsById(t, StrRange(24, 33))[i] : i \in DOMAIN RowsById(t, StrRange(24, 33))} :
        IsStr(In(r, 1))

AIFIdentifierSection(t, b) ==
    IF ~AIFIdentifiersAllStr(t)
    THEN Raise(b, "AttributeError", "object has no attribute 'strip'")
    ELSE
    LET AIFIdentifiers == AIFIdentifiersOf(t)
        b1 == EmitBind(b, b.loc["AIFRecordInfo"], "AIFCompleteDescription",
                       "AIFCompleteDescription")
        b2 == EmitBind(b1, b1.loc["AIFCompleteDescription"], "AIFPrincipalInfo",
                       "AIFPrincipalInfo")
    IN IF AIFIdentifiers = <<>> THEN b2
       ELSE IF AIFIdentifierConditional(AIFIdentifiers)
       THEN Raise(b2, "ConditionalError",
                  " Value required for ReportingMemberState if AIFNationalCode is filled and vice versa")
       ELSE IdentificationLoop(b2, AIFIdentifiers, 1, "AIFIdentification")

LitFalse == StrV(<<"f", "a", "l", "s", "e">>)
LitTrue == StrV(<<"t", "r", "u", "e">>)
LitFEEDER == StrV(<<"F", "E", "E", "D", "E", "R">>)
LitHFND == StrV(<<"H", "F", "N", "D">>)
LitPEQF == StrV(<<"P", "E", "Q", "F">>)
LitISIN == StrV(<<"I", "S", "I", "N">>)
LitAII == StrV(<<"A", "I", "I">>)
LitS == StrV(<<"S">>)
LitNTA == StrV(<<"N", "T", "A">>)
LitNTA_NTA == StrV(<<"N", "T", "A", "_", "N", "T", "A">>)

\* str(x).lower().strip()
LowerStrip(x) == Strip(Lower(PyStr(x)))
\* str(x).upper().strip()
UpperStrip(x) == Strip(Upper(PyStr(x)))

\* for k, v in shareClass.items(): a ShareClassIdentifier per item, holding
\* the item when it is filled
RECURSIVE ShareClassLoop(_, _, _, _)
ShareClassLoop(b, ShareClassIdentification, items, i) ==
    IF i > Len(items) THEN b
    ELSE LET b1 == Emit(b, ShareClassIdentification, "ShareClassIdentifier", <<>>)
             b2 == IF NotEmpty(items[i][2])
                   THEN Emit(b1, Len(b1.nodes), items[i][1], Text(items[i][2]))
                   ELSE b1
         IN ShareClassLoop(b2, ShareClassIdentification, items, i + 1)

\* rows 33-40
AIFShareClassSection(t, b) ==
    LET shareClass == TagDict(RowsById(t, StrRange(33, 41)))
        AIFPrincipalInfo == b.loc["AIFPrincipalInfo"]
        b1 == Emit(b, AIFPrincipalInfo, "ShareClassFlag", <<>>)
        ShareClassFlag == Len(b1.nodes)
        flag == Get(shareClass, "ShareClassFlag")
    IN IF LowerStrip(flag) = LitFalse.v
       THEN [b1 EXCEPT !.nodes[ShareClassFlag].text = Text(flag)]
       ELSE IF IsEmpty(Get(shareClass, "ShareClassName")) /\ LowerStrip(flag) = LitTrue.v
       THEN Raise(b1, "EmptyValueError", "Share class name field is required")
       ELSE LET b2 == Emit(b1, AIFPrincipalInfo, "ShareClassIdentification", <<>>)
            IN ShareClassLoop(b2, Len(b2.nodes), shareClass, 1)

\* rows 41-44
AIFMasterFeederSection(t, b) ==
    LET masterFeeder == TagDict(RowsById(t, StrRange(41, 45)))
        status == Get(masterFeeder, "AIFMasterFeederStatus")
        b1 == EmitBind(b, b.loc["AIFPrincipalInfo"], "AIFDescription", "AIFDescription")
        AIFDescription == b1.loc["AIFDescription"]
        b2 == Emit(b1, AIFDescription, "AIFMasterFeederStatus", UpperStrip(status))
    IN IF ~IsStr(status) THEN Raise(b2, "AttributeError", "object has no attribute 'upper'")
       ELSE IF UpperStrip(status) # LitFEEDER.v THEN b2
       ELSE IF IsEmpty(Get(masterFeeder, "AIFName"))
       THEN Raise(b2, "EmptyValueError", "Value required for AIFName field")
       ELSE
       LET b3 == Emit(b2, AIFDescription, "MasterAIFsIdentification", <<>>)
           b4 == Emit(b3, Len(b3.nodes), "MasterAIFIdentification", <<>>)
           MasterAIFIdentification == Len(b4.nodes)
           b5 == Emit(b4, MasterAIFIdentification, "AIFName", Text(Get(masterFeeder, "AIFName")))
           rms == Get(masterFeeder, "ReportingMemberState")
           code == Get(masterFeeder, "AIFNationalCode")
       IN IF NotEmpty(rms) /\ IsEmpty(code)
          THEN Raise(b5, "EmptyValueError", "Value is required for AIFNationalCode field")
          ELSE LET b6 == Emit(b5, MasterAIFIdentification, "AIFIdentifierNCA", <<>>)
                   AIFIdentifierNCA == Len(b6.nodes)
                   b7 == IF NotEmpty(rms)
                         THEN Emit(b6, AIFIdentifierNCA, "ReportingMemberState", Text(rms))
                         ELSE b6
               IN IF NotEmpty(code)
                  THEN Emit(b7, AIFIdentifierNCA, "AIFNationalCode", Text(code))
                  ELSE b7

\* rows 45-47: `if primeBrokers:` guards a loop over AIFIdentifiers.items()
AIFPrimeBrokersSection(t, b) ==
    LET primeBrokers == TagDict(RowsById(t, StrRange(45, 48)))
        AIFIdentifiers == AIFIdentifiersOf(t)
    IN IF primeBrokers = <<>> THEN b
       ELSE IdentificationLoop(b, AIFIdentifiers, 1, "PrimeBrokerIdentification")

\* principalValues['BaseCurrency'] and principalValues['AIFNetAssetValue']
\*     and principalValues['AUMAmountInBaseCurrency'] == ""
AIFValuesEmpty(d) ==
    Truthy(Get(d, "BaseCurrency")) /\ Truthy(Get(d, "AIFNetAssetValue"))
    /\ IsEmpty(Get(d, "AUMAmountInBaseCurrency"))

\* principalValues['FXEURRate'] and principalValues['FXEURReferenceRateType'] != ""
AIFFXGuard(d) ==
    Truthy(Get(d, "FXEURRate")) /\ NotEmpty(Get(d, "FXEURReferenceRateType"))

\* the test made on the description instead of the rate type
AIFOtherRateOfDescription(d) ==
    UpperStrip(Get(d, "FXEUROtherReferenceRateDescription")) = LitOTH.v

\* (principalValues['FXEURReferenceRateType']).upper().strip() == "OTH"
AIFOtherRate(d) == UpperStrip(Get(d, "FXEURReferenceRateType")) = LitOTH.v

\* rows 48-53
AIFValuesSection(t, b) ==
    LET principalValues == TagDict(RowsById(t, StrRange(48, 54)))
        AIFDescription == b.loc["AIFDescription"]
        cur == Get(principalValues, "BaseCurrency")
        type == Get(principalValues, "FXEURReferenceRateType")
        desc == Get(principalValues, "FXEUROtherReferenceRateDescription")
    IN IF AIFValuesEmpty(principalValues)
       THEN Raise(b, "EmptyValueError",
                  " AUMAmountInBaseCurrency, BaseCurrency & AIFNetAssetValue cannot be empty")
       ELSE
       LET b1 == Emit(b, AIFDescription, "AIFBaseCurrencyDescription", <<>>)
           AIFBaseCurrencyDescription == Len(b1.nodes)
           b2 == Emit(b1, AIFBaseCurrencyDescription, "BaseCurrency", UpperStrip(cur))
           b3 == Emit(b2, AIFBaseCurrencyDescription, "AUMAmountInBaseCurrency",
                      Text(Get(principalValues, "AUMAmountInBaseCurrency")))
       IN IF ~IsStr(cur) THEN Raise(b3, "AttributeError", "object has no attribute 'upper'")
          ELSE
          LET b4 == IF UpperStrip(cur) # LitEUR.v
                    THEN IF AIFFXGuard(principalValues)
                         THEN Emit(Emit(b3, AIFBaseCurrencyDescription, "FXEURReferenceRateType",
                                        UpperStrip(type)),
                                   AIFBaseCurrencyDescription, "FXEURRate",
                                   Text(Get(principalValues, "FXEURRate")))
                         ELSE Raise(b3, "EmptyValueError",
                                    " FXEURRate & FXEURReferenceRateType cannot be empty")
                    ELSE b3
          IN IF ~Ok(b4) THEN b4
             ELSE IF ~IsStr(type)
             THEN Raise(b4, "AttributeError", "object has no attribute 'upper'")
             ELSE
             LET b5 == IF AIFOtherRate(principalValues)
                       THEN IF NotEmpty(desc)
                            THEN Emit(b4, AIFBaseCurrencyDescription,
                                      "FXEUROtherReferenceRateDescription", Text(desc))
                            ELSE Raise(b4, "EmptyValueError",
                                       "FXEUROthReferenceRateDescription cannot be empty")
                       ELSE b4
             IN IF ~Ok(b5) THEN b5
                ELSE Emit(b5, AIFDescription, "AIFNetAssetValue",
                          Text(Get(principalValues, "AIFNetAssetValue")))

\* rows 54-57
RECURSIVE EmitFilled(_, _, _, _)
EmitFilled(b, parent, items, i) ==
    IF i > Len(items) THEN b
    ELSE EmitFilled(IF NotEmpty(items[i][2])
                    THEN Emit(b, parent, items[i][1], Text(items[i][2])) ELSE b,
                    parent, items, i + 1)

AIFJurisdictionSection(t, b) ==
    LET jurisdictionValues == TagDict(RowsById(t, StrRange(54, 58))) IN
    IF IsEmpty(Get(jurisdictionValues, "PredominantAIFType"))
    THEN Raise(b, "EmptyValueError", "PredominantAIFType field cannot be empty")
    ELSE EmitFilled(b, b.loc["AIFDescription"], jurisdictionValues, 1)

\* for k, v in investmentValues.items(): emit every item, filled or not
RECURSIVE EmitAll(_, _, _, _)
EmitAll(b, parent, items, i) ==
    IF i > Len(items) THEN b
    ELSE EmitAll(Emit(b, parent, items[i][1], Text(items[i][2])), parent, items, i + 1)

\* a strategy section that leaves out the strategies of the other types
AIFStrategySectionSkipping(t, b) ==
    LET jurisdictionValues == TagDict(RowsById(t, StrRange(54, 58)))
        investmentValues == TagDict(RowsById(t, StrRange(58, 61)))
        type == Get(jurisdictionValues, "PredominantAIFType")
        AIFDescription == b.loc["AIFDescription"]
    IN IF PyEq(type, LitHFND)
       THEN LET b1 == Emit(b, AIFDescription, "HedgeFundInvestmentStrategies", <<>>)
                b2 == Emit(b1, Len(b1.nodes), "HedgeFundInvestmentStrategy", <<>>)
            IN EmitAll(b2, Len(b2.nodes), investmentValues, 1)
       ELSE IF PyEq(type, LitPEQF)
       THEN LET b1 == Emit(b, AIFDescription, "PrivateEquityFundInvestmentStrategies", <<>>)
                b2 == Emit(b1, Len(b1.nodes), "PrivateEquityFundInvestmentStrategy", <<>>)
            IN RequiredLoop(b2, Len(b2.nodes), investmentValues, 1, " field cannot be empty")
       ELSE b

\* rows 58-60, by PredominantAIFType of row 57
AIFStrategySection(t, b) ==
    LET jurisdictionValues == TagDict(RowsById(t, StrRange(54, 58)))
        investmentValues == TagDict(RowsById(t, StrRange(58, 61)))
        type == Get(jurisdictionValues, "PredominantAIFType")
        AIFDescription == b.loc["AIFDescription"]
    IN IF PyEq(type, LitHFND)
       THEN LET b1 == Emit(b, AIFDescription, "HedgeFundInvestmentStrategies", <<>>)
                b2 == Emit(b1, Len(b1.nodes), "HedgeFundInvestmentStrategy", <<>>)
            IN EmitAll(b2, Len(b2.nodes), investmentValues, 1)
       ELSE IF PyEq(type, LitPEQF)
       THEN LET b1 == Emit(b, AIFDescription, "PrivateEquityFundInvestmentStrategies", <<>>)
                b2 == Emit(b1, Len(b1.nodes), "PrivateEquityFundInvestmentStrategy", <<>>)
            IN RequiredLoop(b2, Len(b2.nodes), investmentValues, 1, " field cannot be empty")
       ELSE IF ~HasKey(investmentValues, "PrivateEquityFundStrategyType")
       \* the message of the raise reads investmentValues['PrivateEquityFundStrategyType']
       THEN Raise(b, "KeyError", "PrivateEquityFundStrategyType")
       ELSE Raise(b, "NotImplementedError", "Script has not been implemented for this yet")

\* rows 62-63
AIFHFTSection(t, b) ==
    EmitFilled(b, b.loc["AIFDescription"], TagDict(RowsById(t, StrRange(62, 64))), 1)

\* df[...][['Id', 'XMLDescription', 'Input_1', ..., 'Input_n']].values.tolist(), one row
Cols(r, n) == <<r.Id, r.XMLDescription>> \o [i \in 1..n |-> In(r, i)]
RowLists(rows, n) == [i \in DOMAIN rows |-> Cols(rows[i], n)]
\* list[j] with a Python index
At(list, j) == IF j < 0 THEN list[Len(list) + j + 1] ELSE list[j + 1]

\* [prefix + str(i) for i in range(a, b)]
TagName(prefix, i) ==
    IF i < 10 THEN prefix \o DigitChar[i + 1]
    ELSE prefix \o DigitChar[(i \div 10) + 1] \o DigitChar[(i % 10) + 1]
TagRange(prefix, a, b) == {TagName(prefix, i) : i \in a..(b - 1)}

\* raise EmptyValueError when the cell is empty, else emit it
Required(b, parent, tag, v, msg) ==
    IF ~Ok(b) THEN b
    ELSE IF IsEmpty(v) THEN Raise(b, "EmptyValueError", msg)
    ELSE Emit(b, parent, tag, Text(v))

\* principalExValues[1] == "": the second row of the selection, a list,
\* compared with a str
AIFSubAssetTypeEmpty(principalExValues) == FALSE

\* an AII block that takes the strike price as optional
AIFAIIIdentificationOptionalStrike(b, MainInstrumentTraded, v) ==
    LET b1 == Emit(b, MainInstrumentTraded, "AIIInstrumentIdentification", <<>>)
        AII == Len(b1.nodes)
        b2 == Required(b1, AII, "AIIExchangeCode", At(v, 5), "AIIExchangeCode field cannot empty")
        b3 == Required(b2, AII, "AIIDerivativeType", At(v, 6), "AIIDerivativeType field cannot empty")
        b4 == Required(b3, AII, "AIIPutCallIdentifier", At(v, 7), "AIIPutCallIdentifier field cannot empty")
        b5 == Required(b4, AII, "AIIExpiryDate", At(v, 8), "AIIExpiryDate field cannot empty")
    IN IF Ok(b5) /\ NotEmpty(At(v, 9)) THEN Emit(b5, AII, "AIIStrikePrice", Text(At(v, 9))) ELSE b5

\* the AII block of one main-instrument row
AIFAIIIdentification(b, MainInstrumentTraded, v) ==
    LET b1 == Emit(b, MainInstrumentTraded, "AIIInstrumentIdentification", <<>>)
        AII == Len(b1.nodes)
        b2 == Required(b1, AII, "AIIExchangeCode", At(v, 5), "AIIExchangeCode field cannot empty")
        b3 == Required(b2, AII, "AIIDerivativeType", At(v, 6), "AIIDerivativeType field cannot empty")
        b4 == Required(b3, AII, "AIIPutCallIdentifier", At(v, 7), "AIIPutCallIdentifier field cannot empty")
        b5 == Required(b4, AII, "AIIExpiryDate", At(v, 8), "AIIExpiryDate field cannot empty")
    IN Required(b5, AII, "AIIStrikePrice", At(v, 9), "AIIStrikePrice field cannot empty")

\* the body of `for principalExValue in principalExValues`, for one row
AIFMainInstrument(b, MainInstrumentsTraded, principalExValues, v) ==
    LET b1 == Emit(b, MainInstrumentsTraded, "MainInstrumentTraded", <<>>)
        MainInstrumentTraded == Len(b1.nodes)
        b2 == Emit(b1, MainInstrumentTraded, "Ranking", Text(At(v, 0)))
    IN IF Len(principalExValues) < 2 THEN Raise(b2, "IndexError", "list index out of range")
       ELSE IF AIFSubAssetTypeEmpty(principalExValues)
       THEN Raise(b2, "EmptyValueError", "SubAssetType field cannot empty")
       ELSE
       LET b3 == Emit(b2, MainInstrumentTraded, "SubAssetType", Text(At(v, 1)))
           traded == ~PyEq(At(v, 1), LitNTA_NTA_NOTA)
           b4 == IF traded
                 THEN Required(Required(b3, MainInstrumentTraded, "InstrumentCodeType", At(v, 2),
                                        "InstrumentCodeType field cannot empty"),
                               MainInstrumentTraded, "InstrumentName", At(v, 3),
                               "InstrumentName field cannot empty")
                 ELSE b3
           b5 == IF Ok(b4) /\ PyEq(At(v, 2), LitISIN)
                 THEN Required(b4, MainInstrumentTraded, "ISINInstrumentIdentification",
                               At(v, 4), "ISINInstrumentIdentification field cannot empty")
                 ELSE b4
           b6 == IF Ok(b5) /\ PyEq(At(v, 2), LitAII)
                 THEN AIFAIIIdentification(b5, MainInstrumentTraded, v)
                 ELSE b5
           b7 == IF Ok(b6) /\ traded
                 THEN Emit(Emit(b6, MainInstrumentTraded, "PositionValue", Text(At(v, -2))),
                           MainInstrumentTraded, "PositionType", UpperStrip(At(v, -3)))
                 ELSE b6
       IN IF Ok(b7) /\ UpperStrip(At(v, -3)) = LitS.v
          THEN Emit(b7, MainInstrumentTraded, "ShortPositionHedgingRate", Text(At(v, -1)))
          ELSE b7

RECURSIVE AIFMainInstrumentsLoop(_, _, _, _)
AIFMainInstrumentsLoop(b, parent, principalExValues, i) ==
    IF i > Len(principalExValues) \/ ~Ok(b) THEN b
    ELSE AIFMainInstrumentsLoop(
             AIFMainInstrument(b, parent, principalExValues, principalExValues[i]),
             parent, principalExValues, i + 1)

\* rows m1..m5
AIFMainInstrumentsSection(t, b) ==
    LET principalExValues == RowLists(RowsByTag(t, TagRange("m", 1, 6)), 12)
        b1 == Emit(b, b.loc["AIFPrincipalInfo"], "MainInstrumentsTraded", <<>>)
    IN AIFMainInstrumentsLoop(b1, Len(b1.nodes), principalExValues, 1)

\* rows 78-85
AIFNAVFocusSection(t, b) ==
    LET navGeographicalFocus == TagDict(RowsById(t, StrRange(78, 86)))
        b1 == Emit(b, b.loc["AIFPrincipalInfo"], "NAVGeographicalFocus", <<>>)
    IN RequiredLoop(b1, Len(b1.nodes), navGeographicalFocus, 1, " cannot be empty")

\* rows 86-93
AIFAUMFocusSection(t, b) ==
    LET aumGeographicalFocus == TagDict(RowsById(t, StrRange(86, 94))) IN
    IF aumGeographicalFocus = <<>> THEN b
    ELSE LET b1 == Emit(b, b.loc["AIFPrincipalInfo"], "AUMGeographicalFocus", <<>>)
         IN EmitAll(b1, Len(b1.nodes), aumGeographicalFocus, 1)

\* the body of `for principalEx2Value in principalEx2Values`, for one row
AIFPrincipalExposure(b, PrincipalExposures, v) ==
    LET b1 == Emit(b, PrincipalExposures, "PrincipalExposure", <<>>)
        PrincipalExposure == Len(b1.nodes)
        b2 == Emit(b1, PrincipalExposure, "Ranking", Text(At(v, 0)))
        b3 == Emit(b2, PrincipalExposure, "AssetMacroType", Text(At(v, 1)))
    IN IF PyEq(At(v, 1), LitNTA) THEN b3
       ELSE
       LET b4 == Emit(b3, PrincipalExposure, "SubAssetType", Text(At(v, 2)))
           b5 == Emit(b4, PrincipalExposure, "PositionType", Text(At(v, 3)))
           b6 == Emit(b5, PrincipalExposure, "AggregatedValueAmount", Text(At(v, 4)))
           b7 == Emit(b6, PrincipalExposure, "AggregatedValueRate", Text(At(v, 5)))
           b8 == IF NotEmpty(At(v, 6))
                 THEN LET c == EmitBind(b7, PrincipalExposure, "CounterpartyIdentification",
                                        "CounterpartyIdentification")
                      IN Emit(c, c.loc["CounterpartyIdentification"], "EntityName",
                              Text(At(v, 6)))
                 ELSE b7
           b9 == IF NotEmpty(At(v, 8))
                 THEN EmitLocal(b8, "CounterpartyIdentification", "EntityIdentificationBIC",
                                Text(At(v, 8)))
                 ELSE b8
       IN IF Ok(b9) /\ NotEmpty(At(v, 7))
          THEN EmitLocal(b9, "CounterpartyIdentification", "EntityIdentificationLEI",
                         Text(At(v, 7)))
          ELSE b9

RECURSIVE AIFPrincipalExposuresLoop(_, _, _, _)
AIFPrincipalExposuresLoop(b, parent, principalEx2Values, i) ==
    IF i > Len(principalEx2Values) \/ ~Ok(b) THEN b
    ELSE AIFPrincipalExposuresLoop(AIFPrincipalExposure(b, parent, principalEx2Values[i]),
                                   parent, principalEx2Values, i + 1)

\* rows p1..p10
AIFPrincipalExposuresSection(t, b) ==
    LET principalEx2Values == RowLists(RowsByTag(t, TagRange("p", 1, 11)), 7)
        b1 == Emit(b, b.loc["AIFPrincipalInfo"], "PrincipalExposures", <<>>)
    IN AIFPrincipalExposuresLoop(b1, Len(b1.nodes), principalEx2Values, 1)

\* the body of `for value in portfolioConcentration`, for one row
AIFPortfolioConcentration(b, PortfolioConcentrations, value) ==
    LET b1 == Emit(b, PortfolioConcentrations, "PortfolioConcentration", <<>>)
        PortfolioConcentration == Len(b1.nodes)
        b2 == Emit(b1, PortfolioConcentration, "Ranking", Text(At(value, 0)))
        b3 == Emit(b2, PortfolioConcentration, "AssetType", Text(At(value, 1)))
        b4 == IF ~PyEq(At(value, 1), LitNTA_NTA)
              THEN LET c1 == Emit(b3, PortfolioConcentration, "PositionType", Text(At(value, 2)))
                       c2 == EmitBind(c1, PortfolioConcentration, "MarketIdentification",
                                      "MarketIdentification")
                   IN Emit(c2, c2.loc["MarketIdentification"], "MarketCodeType",
                           Text(At(value, 3)))
              ELSE b3
        b5 == IF PyEq(At(value, 3), LitMIC)
              THEN EmitLocal(b4, "MarketIdentification", "MarketCode", Text(At(value, 4)))
              ELSE b4
    IN IF ~Ok(b5) THEN b5
       ELSE
       LET b6 == Emit(b5, PortfolioConcentration, "AggregatedValueAmount", Text(At(value, 5)))
           b7 == Emit(b6, PortfolioConcentration, "AggregatedValueRate", Text(At(value, 6)))
           b8 == IF PyEq(At(value, 3), LitOTC) /\ NotEmpty(At(value, 7))
                 THEN LET c == EmitBind(b7, PortfolioConcentration, "CounterpartyIdentification",
                                        "CounterpartyIdentification")
                      IN Emit(c, c.loc["CounterpartyIdentification"], "EntityName",
                              Text(At(value, 7)))
                 ELSE b7
           b9 == IF NotEmpty(At(value, 9))
                 THEN EmitLocal(b8, "CounterpartyIdentification", "EntityIdentificationBIC",
                                Text(At(value, 9)))
                 ELSE b8
       IN IF Ok(b9) /\ NotEmpty(At(value, 8))
          THEN EmitLocal(b9, "CounterpartyIdentification", "EntityIdentificationLEI",
                         Text(At(value, 8)))
          ELSE b9

RECURSIVE AIFPortfolioConcentrationsLoop(_, _, _, _)
AIFPortfolioConcentrationsLoop(b, parent, portfolioConcentration, i) ==
    IF i > Len(portfolioConcentration) \/ ~Ok(b) THEN b
    ELSE AIFPortfolioConcentrationsLoop(
             AIFPortfolioConcentration(b, parent, portfolioConcentration[i]),
             parent, portfolioConcentration, i + 1)

\* rows q1..q5
AIFPortfolioConcentrationsSection(t, b) ==
    LET portfolioConcentration == RowLists(RowsByTag(t, TagRange("q", 1, 6)), 8)
        b1 == EmitBind(b, b.loc["AIFPrincipalInfo"], "MostImportantConcentration",
                       "MostImportantConcentration")
        b2 == Emit(b1, b1.loc["MostImportantConcentration"], "PortfolioConcentrations", <<>>)
    IN AIFPortfolioConcentrationsLoop(b2, Len(b2.nodes), portfolioConcentration, 1)

Lit113 == StrV(<<"1", "1", "3">>)

\* row 113
AIFTypicalPositionSizeSection(t, b) ==
    LET rows == RowsById(t, {Lit113})
        jurisdictionValues == TagDict(RowsById(t, StrRange(54, 58)))
    IN IF rows = <<>> THEN Raise(b, "IndexError", "list index out of range")
       ELSE IF PyEq(Get(jurisdictionValues, "PredominantAIFType"), LitPEQF)
       THEN Emit(b, b.loc["MostImportantConcentration"], "TypicalPositionSize",
                 Text(In(rows[1], 1)))
       ELSE b

\* the body of `for market in markerts`, for one row
AIFPrincipalMarket(b, AIFPrincipalMarkets, market) ==
    LET b1 == Emit(b, AIFPrincipalMarkets, "AIFPrincipalMarket", <<>>)
        AIFPrincipalMarket_ == Len(b1.nodes)
        b2 == Emit(b1, AIFPrincipalMarket_, "Ranking", Text(At(market, 0)))
        type == UpperStrip(At(market, 1))
    IN IF IsEmpty(At(market, 1))
       THEN Raise(b2, "EmptyValueError", "MarketIdentification cannot be empty")
       ELSE
       LET b3 == Emit(b2, AIFPrincipalMarket_, "MarketIdentification", <<>>)
           MarketIdentification == Len(b3.nodes)
           b4 == Bind(Emit(b3, MarketIdentification, "MarketCodeType", type),
                      "MarketIdentification", MarketIdentification)
       IN IF type = LitMIC.v /\ IsEmpty(At(market, 2))
          THEN Raise(b4, "EmptyValueError", "MarketCode cannot be empty")
          ELSE
          LET b5 == IF type = LitMIC.v
                    THEN Emit(b4, MarketIdentification, "MarketCode", Text(At(market, 2)))
                    ELSE b4
          IN IF type # LitNOT.v /\ IsEmpty(At(market, 3))
             THEN Raise(b5, "EmptyValueError", "MarketCode cannot be empty")
             ELSE IF type # LitNOT.v
             THEN Emit(b5, AIFPrincipalMarket_, "AggregatedValueAmount", Text(At(market, 3)))
             ELSE b5

RECURSIVE AIFPrincipalMarketsLoop(_, _, _, _)
AIFPrincipalMarketsLoop(b, parent, markerts, i) ==
    IF i > Len(markerts) \/ ~Ok(b) THEN b
    ELSE AIFPrincipalMarketsLoop(AIFPrincipalMarket(b, parent, markerts[i]),
                                 parent, markerts, i + 1)

\* rows r1..r3
AIFPrincipalMarketsSection(t, b) ==
    LET markerts == RowLists(RowsByTag(t, TagRange("r", 1, 4)), 2)
        b1 == Emit(b, b.loc["MostImportantConcentration"], "AIFPrincipalMarkets", <<>>)
    IN AIFPrincipalMarketsLoop(b1, Len(b1.nodes), markerts, 1)

\* rows 118-120
AIFInvestorConcentrationSection(t, b) ==
    LET investorConcentration == TagDict(RowsById(t, StrRange(118, 121)))
        b1 == Emit(b, b.loc["MostImportantConcentration"], "InvestorConcentration", <<>>)
    IN RequiredLoop(b1, Len(b1.nodes), investorConcentration, 1, " cannot be empty")

\* one row of an AIF sheet: df.columns = ['xmlTags', 'Id', 'XMLDescription',
\* 'Input_1', ..., 'Input_12']; the cells after `ins` are empty
AIFRow(tag, id, desc, ins) ==
    [xmlTags |-> tag, Id |-> id, XMLDescription |-> desc, Input |-> Filled(ins)]

\* a filled-in AIF template that converts without error
AIFTemplate == <<
    AIFRow("ReportingMemberState", StrV(Digits(1)), Empty, <<StrV(<<"N", "L">>)>>),
    AIFRow("Version", StrV(Digits(2)), Empty, <<StrV(<<"1", ".", "2">>)>>),
    AIFRow("CreationDateAndTime", StrV(Digits(3)), Empty, <<Empty>>),
    AIFRow("FilingType", StrV(Digits(4)), Empty, <<StrV(<<"I", "N", "I", "T">>)>>),
    AIFRow("AIFContentType", StrV(Digits(5)), Empty, <<IntV(1)>>),
    AIFRow("ReportingPeriodStartDate", StrV(Digits(6)), Empty, <<DtmV(<<"2", "0", "2", "0", "-", "0", "1", "-", "0", "1">>, <<"0", "0", ":", "0", "0", ":", "0", "0">>)>>),
    AIFRow("ReportingPeriodEndDate", StrV(Digits(7)), Empty, <<DtmV(<<"2", "0", "2", "0", "-", "0", "3", "-", "3", "1">>, <<"0", "0", ":", "0", "0", ":", "0", "0">>)>>),
    AIFRow("ReportingPeriodType", StrV(Digits(8)), Empty, <<StrV(<<"Q", "1">>)>>),
    AIFRow("ReportingPeriodYear", StrV(Digits(9)), Empty, <<IntV(2020)>>),
    AIFRow("AIFReportingObligationChangeFrequencyCode", StrV(Digits(10)), Empty, <<Empty>>),
    AIFRow("AIFReportingObligationChangeContentsCode", StrV(Digits(11)), Empty, <<Empty>>),
    AIFRow("AIFReportingObligationChangeQuarter", StrV(Digits(12)), Empty, <<Empty>>),
    AIFRow("LastReportingFlag", StrV(Digits(13)), Empty, <<StrV(<<"f", "a", "l", "s", "e">>)>>),
    AIFRow("QuestionNumber", StrV(Digits(14)), Empty, <<Empty>>),
    AIFRow("AssumptionDescription", StrV(Digits(15)), Empty, <<Empty>>),
    AIFRow("AIFMNationalCode", StrV(Digits(16)), Empty, <<IntV(12)>>),
    AIFRow("AIFNationalCode", StrV(Digits(17)), Empty, <<IntV(34)>>),
    AIFRow("AIFName", StrV(Digits(18)), Empty, <<StrV(<<"F", "u", "n", "d">>)>>),
    AIFRow("AIFEEAFlag", StrV(Digits(19)), Empty, <<StrV(<<"t", "r", "u", "e">>)>>),
    AIFRow("AIFReportingCode", StrV(Digits(20)), Empty, <<IntV(1)>>),
    AIFRow("AIFDomicile", StrV(Digits(21)), Empty, <<StrV(<<"N", "L">>)>>),
    AIFRow("InceptionDate", StrV(Digits(22)), Empty, <<StrV(<<"2", "0", "1", "0", "-", "0", "1", "-", "0", "1">>)>>),
    AIFRow("AIFNoReportingFlag", StrV(Digits(23)), Empty, <<StrV(<<"f", "a", "l", "s", "e">>)>>),
    AIFRow("AIFIdentifierLEI", StrV(Digits(24)), Empty, <<StrV(<<"L", "E", "I", "1">>)>>),
    AIFRow("AIFIdentifierISIN", StrV(Digits(25)), Empty, <<Empty>>),
    AIFRow("AIFIdentifierCUSIP", StrV(Digits(26)), Empty, <<Empty>>),
    AIFRow("AIFIdentifierSEDOL", StrV(Digits(27)), Empty, <<Empty>>),
    AIFRow("AIFIdentifierTicker", StrV(Digits(28)), Empty, <<Empty>>),
    AIFRow("AIFIdentifierRIC", StrV(Digits(29)), Empty, <<Empty>>),
    AIFRow("AIFIdentifierECB", StrV(Digits(30)), Empty, <<Empty>>),
    AIFRow("ReportingMemberState", StrV(Digits(31)), Empty, <<Empty>>),
    AIFRow("AIFNationalCode", StrV(Digits(32)), Empty, <<Empty>>),
    AIFRow("ShareClassFlag", StrV(Digits(33)), Empty, <<StrV(<<"f", "a", "l", "s", "e">>)>>),
    AIFRow("ShareClassNationalCode", StrV(Digits(34)), Empty, <<Empty>>),
    AIFRow("ShareClassIdentifierISIN", StrV(Digits(35)), Empty, <<Empty>>),
    AIFRow("ShareClassIdentifierSEDOL", StrV(Digits(36)), Empty, <<Empty>>),
    AIFRow("ShareClassIdentifierCUSIP", StrV(Digits(37)), Empty, <<Empty>>),
    AIFRow("ShareClassIdentifierTicker", StrV(Digits(38)), Empty, <<Empty>>),
    AIFRow("ShareClassIdentifierRIC", StrV(Digits(39)), Empty, <<Empty>>),
    AIFRow("ShareClassName", StrV(Digits(40)), Empty, <<Empty>>),
    AIFRow("AIFMasterFeederStatus", StrV(Digits(41)), Empty, <<StrV(<<"n", "o", "n", "e">>)>>),
    AIFRow("AIFName", StrV(Digits(42)), Empty, <<Empty>>),
    AIFRow("ReportingMemberState", StrV(Digits(43)), Empty, <<Empty>>),
    AIFRow("AIFNationalCode", StrV(Digits(44)), Empty, <<Empty>>),
    AIFRow("EntityName", StrV(Digits(45)), Empty, <<Empty>>),
    AIFRow("EntityIdentificationLEI", StrV(Digits(46)), Empty, <<Empty>>),
    AIFRow("EntityIdentificationBIC", StrV(Digits(47)), Empty, <<Empty>>),
    AIFRow("AUMAmountInBaseCurrency", StrV(Digits(48)), Empty, <<IntV(100)>>),
    AIFRow("BaseCurrency", StrV(Digits(49)), Empty, <<LitEUR>>),
    AIFRow("FXEURReferenceRateType", StrV(Digits(50)), Empty, <<Empty>>),
    AIFRow("FXEURRate", StrV(Digits(51)), Empty, <<Empty>>),
    AIFRow("FXEUROtherReferenceRateDescription", StrV(Digits(52)), Empty, <<Empty>>),
    AIFRow("AIFNetAssetValue", StrV(Digits(53)), Empty, <<IntV(90)>>),
    AIFRow("FirstFundingSourceCountry", StrV(Digits(54)), Empty, <<StrV(<<"N", "L">>)>>),
    AIFRow("SecondFundingSourceCountry", StrV(Digits(55)), Empty, <<Empty>>),
    AIFRow("ThirdFundingSourceCountry", StrV(Digits(56)), Empty, <<Empty>>),
    AIFRow("PredominantAIFType", StrV(Digits(57)), Empty, <<LitPEQF>>),
    AIFRow("PrivateEquityFundStrategyType", StrV(Digits(58)), Empty, <<StrV(<<"V", "E", "N", "T">>)>>),
    AIFRow("PrimaryStrategyFlag", StrV(Digits(59)), Empty, <<StrV(<<"t", "r", "u", "e">>)>>),
    AIFRow("StrategyNAVRate", StrV(Digits(60)), Empty, <<IntV(100)>>),
    AIFRow("HFTTransactionNumber", StrV(Digits(62)), Empty, <<Empty>>),
    AIFRow("HFTBuySellMarketValue", StrV(Digits(63)), Empty, <<Empty>>),
    AIFRow("m1", IntV(1), StrV(<<"S", "E", "C">>), <<LitISIN, StrV(<<"N", "a", "m", "e">>), StrV(<<"N", "L", "0", "0">>), Empty, Empty, Empty, Empty, Empty, Empty, StrV(<<"l">>), IntV(10), Empty>>),
    AIFRow("m2", IntV(2), StrV(<<"D", "E", "R">>), <<LitAII, StrV(<<"O", "p", "t">>), Empty, StrV(<<"X", "E", "U", "R">>), StrV(<<"O">>), StrV(<<"C">>), StrV(<<"2", "0", "2", "0", "-", "1", "2", "-", "1", "8">>), IntV(15), Empty, StrV(<<"s">>), IntV(5), IntV(50)>>),
    AIFRow("m3", IntV(3), LitNTA_NTA_NOTA, <<>>),
    AIFRow("m4", IntV(4), LitNTA_NTA_NOTA, <<>>),
    AIFRow("m5", IntV(5), LitNTA_NTA_NOTA, <<>>),
    AIFRow("AfricaNAVRate", StrV(Digits(78)), Empty, <<IntV(0)>>),
    AIFRow("AsiaPacificNAVRate", StrV(Digits(79)), Empty, <<IntV(0)>>),
    AIFRow("EuropeNAVRate", StrV(Digits(80)), Empty, <<IntV(0)>>),
    AIFRow("EEANAVRate", StrV(Digits(81)), Empty, <<IntV(100)>>),
    AIFRow("MiddleEastNAVRate", StrV(Digits(82)), Empty, <<IntV(0)>>),
    AIFRow("NorthAmericaNAVRate", StrV(Digits(83)), Empty, <<IntV(0)>>),
    AIFRow("SouthAmericaNAVRate", StrV(Digits(84)), Empty, <<IntV(0)>>),
    AIFRow("SupraNationalNAVRate", StrV(Digits(85)), Empty, <<IntV(0)>>),
    AIFRow("AfricaAUMRate", StrV(Digits(86)), Empty, <<IntV(0)>>),
    AIFRow("AsiaPacificAUMRate", StrV(Digits(87)), Empty, <<IntV(0)>>),
    AIFRow("EuropeAUMRate", StrV(Digits(88)), Empty, <<IntV(0)>>),
    AIFRow("EEAAUMRate", StrV(Digits(89)), Empty, <<IntV(100)>>),
    AIFRow("MiddleEastAUMRate", StrV(Digits(90)), Empty, <<IntV(0)>>),
    AIFRow("NorthAmericaAUMRate", StrV(Digits(91)), Empty, <<IntV(0)>>),
    AIFRow("SouthAmericaAUMRate", StrV(Digits(92)), Empty, <<IntV(0)>>),
    AIFRow("SupraNationalAUMRate", StrV(Digits(93)), Empty, <<IntV(0)>>),
    AIFRow("p1", IntV(1), StrV(<<"S", "E", "C">>), <<StrV(<<"S", "E", "C", "_", "L", "E", "Q">>), StrV(<<"L">>), IntV(10), IntV(50), StrV(<<"B", "a", "n", "k">>), StrV(<<"L", "E", "I", "2">>), Empty>>),
    AIFRow("p2", IntV(2), LitNTA, <<>>),
    AIFRow("p3", IntV(3), LitNTA, <<>>),
    AIFRow("p4", IntV(4), LitNTA, <<>>),
    AIFRow("p5", IntV(5), LitNTA, <<>>),
    AIFRow("p6", IntV(6), LitNTA, <<>>),
    AIFRow("p7", IntV(7), LitNTA, <<>>),
    AIFRow("p8", IntV(8), LitNTA, <<>>),
    AIFRow("p9", IntV(9), LitNTA, <<>>),
    AIFRow("p10", IntV(10), LitNTA, <<>>),
    AIFRow("q1", IntV(1), StrV(<<"S", "E", "C", "_", "L", "E", "Q">>), <<StrV(<<"L">>), LitMIC, StrV(<<"X", "A", "M", "S">>), IntV(10), IntV(50), Empty, Empty, Empty>>),
    AIFRow("q2", IntV(2), LitNTA_NTA, <<>>),
    AIFRow("q3", IntV(3), LitNTA_NTA, <<>>),
    AIFRow("q4", IntV(4), LitNTA_NTA, <<>>),
    AIFRow("q5", IntV(5), LitNTA_NTA, <<>>),
    AIFRow("TypicalPositionSize", StrV(Digits(113)), Empty, <<StrV(<<"V", "_", "S", "M", "A", "L", "L">>)>>),
    AIFRow("r1", IntV(1), LitMIC, <<StrV(<<"X", "A", "M", "S">>), IntV(10)>>),
    AIFRow("r2", IntV(2), LitXXX, <<Empty, IntV(5)>>),
    AIFRow("r3", IntV(3), LitNOT, <<>>),
    AIFRow("MainBeneficialOwnersRate", StrV(Digits(118)), Empty, <<IntV(50)>>),
    AIFRow("ProfessionalInvestorConcentrationRate", StrV(Digits(119)), Empty, <<IntV(60)>>),
    AIFRow("RetailInvestorConcentrationRate", StrV(Digits(120)), Empty, <<IntV(40)>>)
>>

AIFRequiredIds == (4..9) \cup {13} \cup (16..23)
AIFRequiredInputs == {SetInput(AIFTemplate, n, Empty) : n \in AIFRequiredIds}

\* the base-currency rows 48-53 in every combination
AIFCurrencyInputs ==
    {SetInput(SetInput(SetInput(SetInput(SetInput(SetInput(AIFTemplate, 48, a), 49, c), 50, r), 51, x), 52, o), 53, v) :
        a \in {Empty, IntV(0), IntV(7)}, c \in CurrencyValues \cup {IntV(7)},
        r \in RateTypeValues, x \in RateValues \cup {IntV(0)}, o \in DescriptionValues,
        v \in {Empty, IntV(90)}}

AIFAssumptionInputs ==
    {SetInput(SetInput(AIFTemplate, 14, q), 15, d) :
        q \in {Empty, IntV(3), IntV(0)},
        d \in {Empty, ValNote, Chars(MaxAssumptionDescription),
               Chars(MaxAssumptionDescription + 1)}}

AIFHeaderInputs ==
    {SetInput(SetInput(AIFTemplate, 1, a), 2, c) : a, c \in {Empty, ValECB}}

\* LastReportingFlag, and ShareClassFlag with and without a share class name
AIFFlagInputs ==
    {SetInput(AIFTemplate, 13, f) : f \in FlagValues}
    \cup {SetInput(SetInput(AIFTemplate, 33, f), 40, n) : f \in FlagValues, n \in {Empty, ValNote}}

\* the identifiers ReportingMemberState and AIFNationalCode of rows 31 and 32,
\* with and without the LEI of row 24
AIFIdentifierInputs ==
    {SetInput(SetInput(SetInput(AIFTemplate, 24, l), 31, m), 32, c) :
        l \in {Empty, ValXAMS}, m \in {Empty, ValNL, StrV(<<" ">>)},
        c \in {Empty, ValNote, IntV(34)}}

\* PredominantAIFType of row 57
AIFTypeValues ==
    {LitHFND, LitPEQF, StrV(<<"h", "f", "n", "d">>), StrV(<<"R", "E", "S", "F">>),
     StrV(<<"P", "E", "Q", "F", " ">>), StrV(<<" ">>), IntV(5)}
AIFTypeInputs ==
    {SetInput(SetInput(AIFTemplate, 57, v), 59, w) : v \in AIFTypeValues, w \in {Empty, ValNote}}

\* the main instruments m1 and m2: the AII cells Input_4 .. Input_8 of the
\* AII row m2 emptied, and other code types
AIFAIIInputs ==
    {SetTagCell(AIFTemplate, "m2", n, Empty) : n \in 4..8}
    \cup {SetTagCell(SetTagCell(AIFTemplate, "m2", 5, Empty), "m2", 8, Empty),
          SetTagCell(AIFTemplate, "m1", 1, LitAII),
          SetTagCell(AIFTemplate, "m2", 1, LitISIN),
          SetTagCell(AIFTemplate, "m2", 1, StrV(<<"a", "i", "i">>)),
          SetTagCell(AIFTemplate, "m2", 1, StrV(<<" ", "A", "I", "I">>)),
          SetDescription(SetTagCell(AIFTemplate, "m3", 1, LitAII), IntV(3), StrV(<<"S", "E", "C">>))}

\* the sheet t with XMLDescription of the row tagged tag set to val
SetTagDescription(t, tag, val) ==
    [i \in DOMAIN t |-> IF t[i].xmlTags = tag THEN [t[i] EXCEPT !.XMLDescription = val] ELSE t[i]]
\* a main-instrument row without SubAssetType: the ISIN row m1, the AII row
\* m2 and the row m3 that has no instrument
AIFSubAssetInputs == {SetTagDescription(AIFTemplate, m, Empty) : m \in {"m1", "m2", "m3"}}

\* identifiers and market codes in rows that make no container of their own:
\* a second exposure p2 with an LEI and no EntityName, after p1 and alone;
\* a BIC in the concentration q1, which is no OTC row; a market code in q2,
\* whose AssetType is NTA_NTA
ValLEI9 == StrV(<<"L", "E", "I", "9">>)
ExposureWithoutName(t, tag) ==
    SetTagCell(SetTagCell(SetTagCell(SetTagCell(SetTagCell(
        SetTagDescription(t, tag, StrV(<<"S", "E", "C">>)),
        tag, 1, StrV(<<"S", "E", "C", "_", "L", "E", "Q">>)), tag, 2, StrV(<<"L">>)),
        tag, 3, IntV(10)), tag, 4, IntV(50)), tag, 6, ValLEI9)
AIFContainerInputs ==
    {ExposureWithoutName(AIFTemplate, "p2"),
     ExposureWithoutName(SetTagDescription(AIFTemplate, "p1", LitNTA), "p2"),
     SetTagCell(AIFTemplate, "q1", 8, ValLEI9),
     SetTagCell(SetTagCell(AIFTemplate, "q1", 2, LitOTC), "q1", 6, ValXAMS),
     SetTagCell(SetTagCell(SetTagCell(AIFTemplate, "q1", 2, LitOTC), "q1", 6, ValXAMS),
                "q1", 7, ValLEI9),
     SetTagCell(SetTagCell(AIFTemplate, "q2", 2, LitMIC), "q2", 3, ValXAMS)}

\* the prime-broker rows 45-47 filled, with and without the identifier of
\* row 24
AIFPrimeBrokerInputs ==
    {SetInput(AIFTemplate, 45, ValXAMS),
     SetInput(SetInput(AIFTemplate, 45, ValXAMS), 46, ValLEI9),
     SetInput(SetInput(AIFTemplate, 45, ValXAMS), 24, Empty)}

AIFInputs ==
    AIFPrimeBrokerInputs \cup AIFContainerInputs \cup AIFSubAssetInputs \cup AIFFlagInputs \cup AIFIdentifierInputs \cup AIFTypeInputs \cup AIFAIIInputs
    \cup AIFRequiredInputs \cup AIFCurrencyInputs \cup AIFAssumptionInputs \cup AIFHeaderInputs

AIFValidUSD ==
    SetInput(SetInput(SetInput(AIFTemplate, 49, ValUSD), 50, ValECB), 51, FltV(11))
AIFBatchInputs ==
    {AIFTemplate, AIFValidUSD, SetInput(AIFTemplate, 4, Empty),
     SetInput(AIFTemplate, 118, Empty)}

----------------------------------------------------------------------------
(* OFKReport.py generateXML.  A workbook is the sequence of its sheets; a  *)
(* sheet has its name, the form tag in its first cell, the column tags of  *)
(* its Kolomtag row and its data rows, one value per column tag.           *)

\* the dict subformRegeltag: sheet name -> tag of the element made per row
subformRegeltag == <<
    <<"AD-A", "AlgDeeln">>, <<"AD-C", "DeelnAct">>, <<"ADO-C", "OnrGoed">>, <<"AEB-A", "Aandelen">>,
    <<"AEB-AI", "Aandelen">>, <<"AEBB-A", "Aandelen">>, <<"AEBB-AI", "Aandelen">>,
    <<"AEBB-G", "GeldmarktPap">>, <<"AEBB-K", "KapitaalmarktPap">>, <<"AEBB-KGI", "Schuldpapier">>,
    <<"AEB-G", "GeldmarktPap">>, <<"AEB-K", "KapitaalmarktPap">>, <<"AEB-KGI", "Schuldpapier">>,
    <<"AEI-A", "Aandelen">>, <<"AEI-AI", "Aandelen">>, <<"AEI-G", "GeldmarktPap">>,
    <<"AEI-K", "KapitaalmarktPap">>, <<"AEI-KGI", "Schuldpapier">>, <<"AEL-A", "Aandelen">>,
    <<"AEL-AI", "Aandelen">>, <<"AEL-G", "GeldmarktPap">>, <<"AEL-K", "KapitaalmarktPap">>,
    <<"AEL-KGI", "Schuldpapier">>, <<"AEN-A", "Aandelen">>, <<"AEN-AI", "Aandelen">>,
    <<"AENB-A", "Aandelen">>, <<"AENB-AI", "Aandelen">>, <<"AENB-G", "GeldmarktPap">>,
    <<"AENB-K", "KapitaalmarktPap">>, <<"AENB-KGI", "Schuldpapier">>, <<"AENL-A", "Aandelen">>,
    <<"AENL-AI", "Aandelen">>, <<"AENL-G", "GeldmarktPap">>, <<"AENL-K", "KapitaalmarktPap">>,
    <<"AENL-KGI", "Schuldpapier">>, <<"AEN-G", "GeldmarktPap">>, <<"AEN-K", "KapitaalmarktPap">>,
    <<"AEN-KGI", "Schuldpapier">>, <<"AEU-A", "Aandelen">>, <<"AEU-AI", "Aandelen">>,
    <<"AEU-G", "GeldmarktPap">>, <<"AEU-K", "KapitaalmarktPap">>, <<"AEU-KGI", "Schuldpapier">>,
    <<"ANF-C", "ActivaNietFin">>, <<"ANF-CGM", "ActivaNietFin">>, <<"ANF-CGJ", "ActivaNietFin">>,
    <<"AO-DI", "DeelnIntInst">>, <<"AOE-A", "Aandelen">>, <<"AOE-AI", "Aandelen">>,
    <<"AOE-G", "GeldmarktPap">>, <<"AOE-K", "KapitaalmarktPap">>, <<"AOE-KGI", "Schuldpapier">>,
    <<"AO-FL", "LeasesUG">>, <<"AO-HK", "HandUGK">>, <<"AO-HL", "HandUGL">>, <<"AO-HY", "HypoUG">>,
    <<"AO-LK", "LeningUGK">>, <<"AO-LL", "LeningUGL">>, <<"AO-OK", "OverigeUGK">>,
    <<"AO-OL", "OverigeUGL">>, <<"AO-RC", "RecCourant">>, <<"AO-RP", "RepoUG">>,
    <<"AR", "StichKap">>, <<"AV-LP", "TechVoorz">>, <<"AV-VV", "LopenAanspr">>,
    <<"BENB-A", "Aandelen">>, <<"BENB-AI", "Aandelen">>, <<"BENB-G", "GeldmarktPap">>,
    <<"BENB-K", "KapitaalmarktPap">>, <<"BENB-KGI", "Schuldpapier">>, <<"BT", "BalansTotaal">>,
    <<"D-FB", "Futures">>, <<"D-FN", "Futures">>, <<"DO-FB", "Futures">>,
    <<"D-OK", "OptiesGekocht">>, <<"DO-OK", "OptiesGekocht">>, <<"DO-OS", "OptiesGeschr">>,
    <<"DO-OTR", "OTCDerivaten">>, <<"DO-OTV", "OTVDerivaten">>, <<"D-OS", "OptiesGeschr">>,
    <<"D-OTR", "OTCDerivaten">>, <<"D-OTV", "OTVDerivaten">>, <<"IO-GO", "OntwHulpGebond">>,
    <<"IO-OO", "OntwHulpSchenk">>, <<"IO-XH", "InkomOverdracht">>,
    <<"GD-ECM", "DienstExtraConcern">>, <<"GD-ICM", "DienstIntraConcern">>,
    <<"GD-GLM", "RandLGebruiksLicent">>, <<"GD-RLM", "RandLReprodLicent">>,
    <<"GD-ECJ", "DienstExtraConcern">>, <<"GD-ICJ", "DienstIntraConcern">>,
    <<"GD-GLJ", "RandLGebruiksLicent">>, <<"GD-RLJ", "RandLReprodLicent">>, <<"IWB", "IntrWaarde">>,
    <<"KO-KW", "SchuldKwijtSch">>, <<"KO-OG", "OnrGoedBtlOv">>, <<"KO-SR", "Stamrechten">>,
    <<"KO-VO", "OverKapitOverdr">>, <<"PD-A", "AlgDeeln">>, <<"PD-C", "DeelnPass">>,
    <<"PEN-A", "Aandelen">>, <<"PEN-AI", "Aandelen">>, <<"PENB-A", "Aandelen">>,
    <<"PENB-AI", "Aandelen">>, <<"PENB-G", "GeldmarktPap">>, <<"PENB-K", "KapitaalmarktPap">>,
    <<"PENB-KGI", "Schuldpapier">>, <<"PENL-A", "Aandelen">>, <<"PENL-AI", "Aandelen">>,
    <<"PENL-G", "GeldmarktPap">>, <<"PENL-K", "KapitaalmarktPap">>, <<"PENL-KGI", "Schuldpapier">>,
    <<"PEN-G", "GeldmarktPap">>, <<"PEN-K", "KapitaalmarktPap">>, <<"PEN-KGI", "Schuldpapier">>,
    <<"PN-OS", "NedTegenpartij">>, <<"PO-FL", "LeasesOG">>, <<"PO-HK", "HandOGK">>,
    <<"PO-HL", "HandOGL">>, <<"PO-LK", "LeningOGK">>, <<"PO-LL", "LeningOGL">>,
    <<"PO-OK", "OverigeOGK">>, <<"PO-OL", "OverigeOGL">>, <<"PO-RP", "RepoOG">>,
    <<"PV-LP", "TechVoorz">>, <<"PV-OV", "OverVoorz">>, <<"PV-VV", "LopenAanspr">>,
    <<"SB-K", "ParticipatieUGK">>, <<"SB-L", "ParticipatieUGL">>, <<"SN-K", "ParticipatieOGK">>,
    <<"SN-L", "ParticipatieOGL">>, <<"WE-A", "Aandelen">>, <<"WE-AI", "Aandelen">>,
    <<"WE-G", "GeldmarktPap">>, <<"WE-K", "KapitaalmarktPap">>, <<"WE-KGI", "Schuldpapier">>,
    <<"WI-A", "Aandelen">>, <<"WI-AI", "Aandelen">>, <<"WI-G", "GeldmarktPap">>,
    <<"WI-K", "KapitaalmarktPap">>, <<"WI-KGI", "Schuldpapier">>, <<"WVA-B", "Bestemming">>,
    <<"WVA-R", "Resulaten">>, <<"WVA-Z", "Resulaten">>, <<"WVB-B", "Baten">>,
    <<"WVB-L", "Bedrijfskosten">>, <<"WVB-O", "Bedrijfskosten">>, <<"WVB-S", "Loonkosten">>,
    <<"WVP", "WinstVerlPremUitk">>, <<"WVP-ZA", "AanvZorg">>, <<"WVP-ZZ", "ZorgZvw">>,
    <<"WVT-BL", "TotBatenLasten">>, <<"WVU-B", "WinstVerlBuiten">>, <<"WVU-L", "LatenUitz">>
>>

\* per sheet name, the positions of the columns the sheet loop drops
OFKBlocked == <<
    \* lines 238-239
    [sheets |-> {"AD-C", "PD-C"}, columns |-> <<-1>>],
    \* lines 240-242
    [sheets |-> {"AEB-A", "AEN-A"}, columns |-> <<1, 11, 12, 13, 14, 15, 16>>],
    \* lines 243-245
    [sheets |-> {"AEB-AI"}, columns |-> <<2, 3, 7, 8, 11, 12, 13, 14, 15, 16>>],
    \* lines 246-247
    [sheets |-> {"AEB-G", "AEB-K", "AEN-G", "AEN-K"}, columns |-> <<1, 17>>],
    \* lines 248-250
    [sheets |-> {"AEB-KGI"}, columns |-> <<2, 3, 7, 8, 11, 12, 15, 16, 17>>],
    \* lines 251-253
    [sheets |-> {"AEN-AI"}, columns |-> <<3, 7, 8, 11, 12, 13, 14, 15, 16>>],
    \* lines 254-256
    [sheets |-> {"AEN-KGI"}, columns |-> <<3, 7, 8, 11, 12, 15, 16, 17>>],
    \* lines 257-258
    [sheets |-> {"AO-FL", "AO-HL", "AO-LK", "AO-LL", "AO-RP"}, columns |-> <<13>>],
    \* lines 259-260
    [sheets |-> {"AO-HY"}, columns |-> <<2, 13>>],
    \* lines 261-263
    [sheets |-> {"AO-OK", "AO-OL"}, columns |-> <<10, 11, 13, 14, 15>>],
    \* lines 264-265
    [sheets |-> {"AO-RC"}, columns |-> <<10, 11, 14, 15>>],
    \* lines 266-268
    [sheets |-> {"D-FB"}, columns |-> <<1, 3, 4, 7, 8, 9, 10>>],
    \* lines 269-270
    [sheets |-> {"D-OK", "D-OS"}, columns |-> <<1, 7, 8>>],
    \* lines 271-272
    [sheets |-> {"D-OTR", "D-OTV"}, columns |-> <<1, 8, 9>>],
    \* lines 273-275
    [sheets |-> {"PEN-A"}, columns |-> <<1, 10, 11, 12, 13, 14, 15>>],
    \* lines 276-278
    [sheets |-> {"PEN-AI"}, columns |-> <<6, 7, 10, 11, 12, 13, 14, 15>>],
    \* lines 279-281
    [sheets |-> {"PEN-KGI"}, columns |-> <<6, 7, 10, 11, 14, 15, 16>>],
    \* lines 282-283
    [sheets |-> {"PEN-G", "PEN-K"}, columns |-> <<1, 16>>],
    \* lines 284-286
    [sheets |-> {"PO-OK", "PO-OL"}, columns |-> <<10, 11, 12, 14, 15>>],
    \* lines 287-288
    [sheets |-> {"PV-OV"}, columns |-> <<1, 2>>],
    \* lines 289-290
    [sheets |-> {"PO-FL", "PO-HL", "PO-LK", "PO-LL", "PO-RP"}, columns |-> <<12>>],
    \* lines 291-292
    [sheets |-> {"WVA-B"}, columns |-> <<1>>],
    \* lines 293-294
    [sheets |-> {"WVB-B", "WVB-L", "WVB-S"}, columns |-> <<1, 3>>]
>>

\* the branches of the validation pass: per sheet name, the slices of
\* columns_to_validate[sheet] that must hold an int, a non-negative int, a str,
\* and whether column Land must have two characters
OFKRules == <<
    \* lines 310-326
    [sheets |-> {"AD-C", "PD-C"},
     int |-> <<[item |-> FALSE, lo |-> 3, hi |-> -1, open |-> FALSE]>>,
     nonneg |-> <<[item |-> FALSE, lo |-> 4, hi |-> 6, open |-> FALSE], [item |-> FALSE, lo |-> 7, hi |-> 8, open |-> FALSE]>>,
     str |-> <<[item |-> FALSE, lo |-> 1, hi |-> 3, open |-> FALSE]>>,
     land |-> TRUE],
    \* lines 327-340
    [sheets |-> {"AD-A", "PD-A"},
     int |-> <<[item |-> FALSE, lo |-> 3, hi |-> 4, open |-> FALSE]>>,
     nonneg |-> <<>>,
     str |-> <<[item |-> FALSE, lo |-> 1, hi |-> 3, open |-> FALSE], [item |-> FALSE, lo |-> -1, hi |-> 0, open |-> TRUE]>>,
     land |-> TRUE],
    \* lines 341-357
    [sheets |-> {"ADO-C"},
     int |-> <<[item |-> FALSE, lo |-> 2, hi |-> 0, open |-> TRUE]>>,
     nonneg |-> <<[item |-> FALSE, lo |-> 2, hi |-> 5, open |-> FALSE], [item |-> FALSE, lo |-> -2, hi |-> -1, open |-> FALSE]>>,
     str |-> <<[item |-> TRUE, lo |-> 1, hi |-> 0, open |-> FALSE]>>,
     land |-> TRUE],
    \* lines 358-374
    [sheets |-> {"AEB-A", "AEN-A"},
     int |-> <<[item |-> FALSE, lo |-> 4, hi |-> 11, open |-> FALSE], [item |-> FALSE, lo |-> -1, hi |-> 0, open |-> TRUE]>>,
     nonneg |-> <<[item |-> FALSE, lo |-> 5, hi |-> 7, open |-> FALSE]>>,
     str |-> <<[item |-> FALSE, lo |-> 2, hi |-> 4, open |-> FALSE]>>,
     land |-> TRUE],
    \* lines 375-389
    [sheets |-> {"AEB-AI"},
     int |-> <<[item |-> FALSE, lo |-> 4, hi |-> 7, open |-> FALSE], [item |-> FALSE, lo |-> 9, hi |-> 11, open |-> FALSE], [item |-> FALSE, lo |-> -1, hi |-> 0, open |-> TRUE]>>,
     nonneg |-> <<[item |-> FALSE, lo |-> 5, hi |-> 7, open |-> FALSE]>>,
     str |-> <<[item |-> TRUE, lo |-> 1, hi |-> 0, open |-> FALSE]>>,
     land |-> FALSE],
    \* lines 390-406
    [sheets |-> {"AEB-G", "AEB-K", "AEN-G", "AEN-K"},
     int |-> <<[item |-> FALSE, lo |-> 4, hi |-> -1, open |-> FALSE]>>,
     nonneg |-> <<[item |-> FALSE, lo |-> 5, hi |-> 7, open |-> FALSE], [item |-> FALSE, lo |-> 13, hi |-> 15, open |-> FALSE]>>,
     str |-> <<[item |-> FALSE, lo |-> 2, hi |-> 4, open |-> FALSE]>>,
     land |-> TRUE],
    \* lines 407-421
    [sheets |-> {"AEB-KGI"},
     int |-> <<[item |-> FALSE, lo |-> 4, hi |-> 7, open |-> FALSE], [item |-> FALSE, lo |-> 9, hi |-> 11, open |-> FALSE], [item |-> FALSE, lo |-> 13, hi |-> 15, open |-> FALSE]>>,
     nonneg |-> <<[item |-> FALSE, lo |-> 5, hi |-> 7, open |-> FALSE], [item |-> FALSE, lo |-> 13, hi |-> 15, open |-> FALSE]>>,
     str |-> <<[item |-> TRUE, lo |-> 1, hi |-> 0, open |-> FALSE]>>,
     land |-> FALSE],
    \* lines 422-438
    [sheets |-> {"AEN-AI"},
     int |-> <<[item |-> FALSE, lo |-> 4, hi |-> 7, open |-> FALSE], [item |-> FALSE, lo |-> 9, hi |-> 11, open |-> FALSE], [item |-> FALSE, lo |-> -1, hi |-> 0, open |-> TRUE]>>,
     nonneg |-> <<[item |-> FALSE, lo |-> 5, hi |-> 7, open |-> FALSE]>>,
     str |-> <<[item |-> FALSE, lo |-> 1, hi |-> 3, open |-> FALSE]>>,
     land |-> TRUE],
    \* lines 439-455
    [sheets |-> {"AEN-KGI"},
     int |-> <<[item |-> FALSE, lo |-> 4, hi |-> 7, open |-> FALSE], [item |-> FALSE, lo |-> 9, hi |-> 11, open |-> FALSE], [item |-> FALSE, lo |-> 13, hi |-> 15, open |-> FALSE]>>,
     nonneg |-> <<[item |-> FALSE, lo |-> 5, hi |-> 7, open |-> FALSE], [item |-> FALSE, lo |-> 13, hi |-> 15, open |-> FALSE]>>,
     str |-> <<[item |-> FALSE, lo |-> 1, hi |-> 3, open |-> FALSE]>>,
     land |-> TRUE],
    \* lines 456-465
    [sheets |-> {"ANF-C"},
     int |-> <<[item |-> FALSE, lo |-> 1, hi |-> 0, open |-> TRUE]>>,
     nonneg |-> <<[item |-> FALSE, lo |-> 2, hi |-> 4, open |-> FALSE]>>,
     str |-> <<>>,
     land |-> FALSE],
    \* lines 466-482
    [sheets |-> {"AO-FL", "AO-HL", "AO-LK", "AO-LL", "AO-RP"},
     int |-> <<[item |-> FALSE, lo |-> 3, hi |-> 13, open |-> FALSE], [item |-> FALSE, lo |-> -2, hi |-> 0, open |-> TRUE]>>,
     nonneg |-> <<[item |-> FALSE, lo |-> 3, hi |-> 6, open |-> FALSE], [item |-> FALSE, lo |-> 9, hi |-> 13, open |-> FALSE], [item |-> FALSE, lo |-> -1, hi |-> 0, open |-> TRUE]>>,
     str |-> <<[item |-> FALSE, lo |-> 1, hi |-> 3, open |-> FALSE]>>,
     land |-> TRUE],
    \* lines 483-499
    [sheets |-> {"AO-HY"},
     int |-> <<[item |-> FALSE, lo |-> 3, hi |-> 13, open |-> FALSE], [item |-> FALSE, lo |-> -2, hi |-> 0, open |-> TRUE]>>,
     nonneg |-> <<[item |-> FALSE, lo |-> 3, hi |-> 6, open |-> FALSE], [item |-> FALSE, lo |-> 9, hi |-> 13, open |-> FALSE], [item |-> FALSE, lo |-> -1, hi |-> 0, open |-> TRUE]>>,
     str |-> <<[item |-> TRUE, lo |-> 1, hi |-> 0, open |-> FALSE]>>,
     land |-> TRUE],
    \* lines 500-516
    [sheets |-> {"AO-OK", "AO-OL"},
     int |-> <<[item |-> FALSE, lo |-> 3, hi |-> 10, open |-> FALSE], [item |-> FALSE, lo |-> 12, hi |-> 13, open |-> FALSE]>>,
     nonneg |-> <<[item |-> FALSE, lo |-> 3, hi |-> 6, open |-> FALSE], [item |-> FALSE, lo |-> 9, hi |-> 10, open |-> FALSE], [item |-> FALSE, lo |-> 12, hi |-> 13, open |-> FALSE]>>,
     str |-> <<[item |-> FALSE, lo |-> 1, hi |-> 3, open |-> FALSE]>>,
     land |-> TRUE],
    \* lines 517-533
    [sheets |-> {"AO-RC"},
     int |-> <<[item |-> FALSE, lo |-> 3, hi |-> 10, open |-> FALSE], [item |-> FALSE, lo |-> 12, hi |-> 14, open |-> FALSE]>>,
     nonneg |-> <<[item |-> FALSE, lo |-> 4, hi |-> 6, open |-> FALSE], [item |-> FALSE, lo |-> 12, hi |-> 14, open |-> FALSE]>>,
     str |-> <<[item |-> FALSE, lo |-> 1, hi |-> 3, open |-> FALSE]>>,
     land |-> TRUE],
    \* lines 534-550
    [sheets |-> {"D-FB"},
     int |-> <<[item |-> FALSE, lo |-> 5, hi |-> 7, open |-> FALSE]>>,
     nonneg |-> <<[item |-> FALSE, lo |-> 5, hi |-> 7, open |-> FALSE]>>,
     str |-> <<[item |-> TRUE, lo |-> 2, hi |-> 0, open |-> FALSE]>>,
     land |-> TRUE],
    \* lines 551-567
    [sheets |-> {"D-OK", "D-OS"},
     int |-> <<[item |-> FALSE, lo |-> 4, hi |-> 7, open |-> FALSE], [item |-> FALSE, lo |-> -2, hi |-> 0, open |-> TRUE]>>,
     nonneg |-> <<[item |-> FALSE, lo |-> 4, hi |-> 7, open |-> FALSE], [item |-> FALSE, lo |-> -2, hi |-> 0, open |-> TRUE]>>,
     str |-> <<[item |-> FALSE, lo |-> 2, hi |-> 4, open |-> FALSE]>>,
     land |-> TRUE],
    \* lines 568-584
    [sheets |-> {"D-OTR", "D-OTV"},
     int |-> <<[item |-> FALSE, lo |-> 4, hi |-> 8, open |-> FALSE], [item |-> FALSE, lo |-> -3, hi |-> 0, open |-> TRUE]>>,
     nonneg |-> <<[item |-> FALSE, lo |-> 4, hi |-> 8, open |-> FALSE], [item |-> FALSE, lo |-> -2, hi |-> 0, open |-> TRUE]>>,
     str |-> <<[item |-> FALSE, lo |-> 2, hi |-> 4, open |-> FALSE]>>,
     land |-> TRUE],
    \* lines 585-601
    [sheets |-> {"GD-ECM", "GD-ICM"},
     int |-> <<[item |-> FALSE, lo |-> 2, hi |-> 4, open |-> FALSE]>>,
     nonneg |-> <<[item |-> FALSE, lo |-> 2, hi |-> 4, open |-> FALSE]>>,
     str |-> <<[item |-> FALSE, lo |-> 1, hi |-> 2, open |-> FALSE], [item |-> FALSE, lo |-> -1, hi |-> 0, open |-> TRUE]>>,
     land |-> TRUE],
    \* lines 602-618
    [sheets |-> {"PEN-A"},
     int |-> <<[item |-> FALSE, lo |-> 3, hi |-> 10, open |-> FALSE], [item |-> FALSE, lo |-> -1, hi |-> 0, open |-> TRUE]>>,
     nonneg |-> <<[item |-> FALSE, lo |-> 4, hi |-> 6, open |-> FALSE], [item |-> FALSE, lo |-> 9, hi |-> 10, open |-> FALSE], [item |-> FALSE, lo |-> -1, hi |-> 0, open |-> TRUE]>>,
     str |-> <<[item |-> TRUE, lo |-> 2, hi |-> 0, open |-> FALSE]>>,
     land |-> TRUE],
    \* lines 619-635
    [sheets |-> {"PEN-AI"},
     int |-> <<[item |-> FALSE, lo |-> 3, hi |-> 6, open |-> FALSE], [item |-> FALSE, lo |-> 8, hi |-> 10, open |-> FALSE], [item |-> FALSE, lo |-> -1, hi |-> 0, open |-> TRUE]>>,
     nonneg |-> <<[item |-> FALSE, lo |-> 3, hi |-> 6, open |-> FALSE], [item |-> FALSE, lo |-> 9, hi |-> 10, open |-> FALSE], [item |-> FALSE, lo |-> -1, hi |-> 0, open |-> TRUE]>>,
     str |-> <<[item |-> FALSE, lo |-> 1, hi |-> 3, open |-> FALSE]>>,
     land |-> TRUE],
    \* lines 636-652
    [sheets |-> {"PEN-KGI"},
     int |-> <<[item |-> FALSE, lo |-> 3, hi |-> 6, open |-> FALSE], [item |-> FALSE, lo |-> 8, hi |-> 10, open |-> FALSE], [item |-> FALSE, lo |-> 13, hi |-> 15, open |-> FALSE]>>,
     nonneg |-> <<[item |-> FALSE, lo |-> 3, hi |-> 6, open |-> FALSE], [item |-> FALSE, lo |-> 9, hi |-> 10, open |-> FALSE], [item |-> FALSE, lo |-> 13, hi |-> 15, open |-> FALSE]>>,
     str |-> <<[item |-> FALSE, lo |-> 1, hi |-> 3, open |-> FALSE]>>,
     land |-> TRUE],
    \* lines 653-669
    [sheets |-> {"PEN-G", "PEN-K"},
     int |-> <<[item |-> FALSE, lo |-> 3, hi |-> -1, open |-> FALSE]>>,
     nonneg |-> <<[item |-> FALSE, lo |-> 3, hi |-> 6, open |-> FALSE], [item |-> FALSE, lo |-> 9, hi |-> 14, open |-> FALSE], [item |-> FALSE, lo |-> -2, hi |-> -1, open |-> FALSE]>>,
     str |-> <<[item |-> TRUE, lo |-> 2, hi |-> 0, open |-> FALSE]>>,
     land |-> TRUE],
    \* lines 670-686
    [sheets |-> {"PO-OK", "PO-OL"},
     int |-> <<[item |-> FALSE, lo |-> 3, hi |-> 10, open |-> FALSE], [item |-> FALSE, lo |-> -3, hi |-> -2, open |-> FALSE]>>,
     nonneg |-> <<[item |-> FALSE, lo |-> 3, hi |-> 6, open |-> FALSE], [item |-> FALSE, lo |-> 9, hi |-> 10, open |-> FALSE], [item |-> FALSE, lo |-> -3, hi |-> -2, open |-> FALSE]>>,
     str |-> <<[item |-> FALSE, lo |-> 1, hi |-> 3, open |-> FALSE]>>,
     land |-> TRUE],
    \* lines 687-696
    [sheets |-> {"PV-OV"},
     int |-> <<[item |-> FALSE, lo |-> 3, hi |-> 0, open |-> TRUE]>>,
     nonneg |-> <<[item |-> FALSE, lo |-> 4, hi |-> 6, open |-> FALSE]>>,
     str |-> <<>>,
     land |-> FALSE],
    \* lines 697-713
    [sheets |-> {"PO-FL", "PO-HL", "PO-LK", "PO-LL", "PO-RP"},
     int |-> <<[item |-> FALSE, lo |-> 3, hi |-> 12, open |-> FALSE], [item |-> FALSE, lo |-> -3, hi |-> 0, open |-> TRUE]>>,
     nonneg |-> <<[item |-> FALSE, lo |-> 3, hi |-> 6, open |-> FALSE], [item |-> FALSE, lo |-> 9, hi |-> 12, open |-> FALSE], [item |-> FALSE, lo |-> -3, hi |-> -2, open |-> FALSE], [item |-> FALSE, lo |-> -1, hi |-> 0, open |-> TRUE]>>,
     str |-> <<[item |-> FALSE, lo |-> 1, hi |-> 3, open |-> FALSE]>>,
     land |-> TRUE],
    \* lines 714-720
    [sheets |-> {"WVA-B"},
     int |-> <<[item |-> TRUE, lo |-> 2, hi |-> 0, open |-> FALSE]>>,
     nonneg |-> <<>>,
     str |-> <<>>,
     land |-> FALSE],
    \* lines 721-730
    [sheets |-> {"WVB-B", "WVB-L", "WVB-S"},
     int |-> <<[item |-> TRUE, lo |-> 2, hi |-> 0, open |-> FALSE]>>,
     nonneg |-> <<[item |-> TRUE, lo |-> 2, hi |-> 0, open |-> FALSE]>>,
     str |-> <<>>,
     land |-> FALSE],
    \* lines 731-745
    [sheets |-> {"WVU-B", "WVU-L"},
     int |-> <<[item |-> TRUE, lo |-> 2, hi |-> 0, open |-> FALSE]>>,
     nonneg |-> <<[item |-> TRUE, lo |-> 2, hi |-> 0, open |-> FALSE]>>,
     str |-> <<[item |-> TRUE, lo |-> 1, hi |-> 0, open |-> FALSE]>>,
     land |-> FALSE],
    \* lines 746-751
    [sheets |-> {"WVA-R"},
     int |-> <<[item |-> TRUE, lo |-> 1, hi |-> 0, open |-> FALSE]>>,
     nonneg |-> <<>>,
     str |-> <<>>,
     land |-> FALSE]
>>

\* a column tag written with blanks around it, and what k.strip() gives
PaddedTags == <<<<"Land ", "Land">>, <<" Bedrag", "Bedrag">>>>
StripTag(k) == IF HasKey(PaddedTags, k) THEN Get(PaddedTags, k) ELSE k

\* Python's reading of a slice bound i for a list of length n
PyIndex(i, n) ==
    IF i < 0 THEN (IF n + i < 0 THEN 0 ELSE n + i) ELSE (IF i > n THEN n ELSE i)
\* s[lo:hi], and s[lo:] when open
PySlice(s, lo, hi, open) ==
    LET from == PyIndex(lo, Len(s))
        to == IF open THEN Len(s) ELSE PyIndex(hi, Len(s))
    IN IF to <= from THEN <<>> ELSE SubSeq(s, from + 1, to)

\* columns_to_validate[sheet][i] raises IndexError for a short list
OFKIndexError(cols, terms) ==
    \E j \in DOMAIN terms : terms[j].item /\ terms[j].lo >= Len(cols)
\* k in columns_to_validate[sheet][a:b] + ... / k == columns_to_validate[sheet][i]
OFKColumnIn(k, cols, terms) ==
    \E j \in DOMAIN terms :
        IF terms[j].item THEN k = cols[terms[j].lo + 1]
        ELSE LET part == PySlice(cols, terms[j].lo, terms[j].hi, terms[j].open)
             IN \E c \in DOMAIN part : part[c] = k

\* the first branch of an if/elif chain over sheet names that names sheet
Listed(table, sheet) == \E j \in DOMAIN table : sheet \in table[j].sheets
FirstListed(table, sheet) ==
    table[CHOOSE j \in DOMAIN table :
             /\ sheet \in table[j].sheets
             /\ \A i \in 1..(j - 1) : sheet \notin table[i].sheets]

\* what the handler of the exception logs after 'Error Ocurred in ...';
\* k and data[1] are the loop variables at the raise
OFKMessage(kind, k, sheet) ==
    CASE kind = "IntegerValueError" ->
            "Integer value is required in Column \"" \o k \o "\" of worksheet \"" \o sheet \o "\""
      [] kind = "AssertionError" ->
            "Non-negative value required at ('" \o k \o "', '" \o sheet \o "')"
      [] kind = "EmptyValueError" ->
            "Column \"" \o k \o "\" value of worksheet \"" \o sheet \o "\" cannot be empty"
      [] kind = "StringValueError" ->
            "String value is required in Column \"" \o k \o "\" of worksheet \"" \o sheet \o "\""
      [] kind = "LengthValueRequiredError" ->
            "Example of accept values required column \"Land\" are \"BE, NL, AZ\" etc."
      [] OTHER -> "list index out of range"
OFKErr(kind, k, sheet) == Err(kind, OFKMessage(kind, k, sheet))

\* the checks of one cell: the exception raised, or NoErr
OFKCheckInteger(rule, cols, k, v, sheet) ==
    IF IsEmpty(v) THEN OFKErr("EmptyValueError", k, sheet)
    ELSE IF ~IsInt(v) THEN OFKErr("IntegerValueError", k, sheet)
    ELSE IF OFKIndexError(cols, rule.nonneg) THEN OFKErr("IndexError", k, sheet)
    ELSE IF OFKColumnIn(k, cols, rule.nonneg) /\ v.v < 0
    THEN OFKErr("AssertionError", k, sheet)
    ELSE NoErr

OFKCheckString(rule, k, v, sheet) ==
    IF IsEmpty(v) THEN OFKErr("EmptyValueError", k, sheet)
    ELSE IF ~IsStr(v) THEN OFKErr("StringValueError", k, sheet)
    ELSE IF rule.land /\ StripTag(k) = "Land" /\ Len(v.v) # 2
    THEN OFKErr("LengthValueRequiredError", k, sheet)
    ELSE NoErr

OFKCheckRule(rule, cols, k, v, sheet) ==
    IF OFKIndexError(cols, rule.int) THEN OFKErr("IndexError", k, sheet)
    ELSE IF OFKColumnIn(StripTag(k), cols, rule.int)
    THEN OFKCheckInteger(rule, cols, k, v, sheet)
    ELSE IF rule.str = <<>> THEN NoErr
    ELSE IF OFKIndexError(cols, rule.str) THEN OFKErr("IndexError", k, sheet)
    ELSE IF OFKColumnIn(StripTag(k), cols, rule.str)
    THEN OFKCheckString(rule, k, v, sheet)
    ELSE NoErr

\* if data[1] in [...]: ... elif ...: a sheet no branch names is not checked
OFKCheckIn(rules, sheet, cols, k, v) ==
    IF ~Listed(rules, sheet) THEN NoErr
    ELSE OFKCheckRule(FirstListed(rules, sheet), cols, k, v, sheet)

OFKCheck(sheet, cols, k, v) == OFKCheckIn(OFKRules, sheet, cols, k, v)

\* XML Header Information: strftime('%Y-') + '0' + str(int(strftime('%m')) - 1)
GeneratedFileDate(now) ==
    Digits(now.year) \o <<"-">> \o <<"0">> \o PyStr(IntV(now.month - 1))

OFKNamespace == <<"b", "b", ".", "d", "n", "b", ".", "n", "l">>
\* "bb.dnb.nl " + 'OFK-K.' + generated_file_date + '.xsd'
OFKSchemaLocation(now) ==
    OFKNamespace \o <<" ">> \o <<"O", "F", "K", "-", "K", ".">>
    \o GeneratedFileDate(now) \o <<".", "x", "s", "d">>

OFKHeader(now, b) ==
    LET a1 == SetAttr(<<>>, "xmlns", OFKNamespace)
        a2 == SetAttr(a1, "xmlns:xsi", XsiNamespace)
        a3 == SetAttr(a2, "xsi:schemaLocation", OFKSchemaLocation(now))
        b1 == [b EXCEPT !.root = [tag |-> "OFK-K", attrs |-> a3], !.nodes = <<>>]
    IN Emit(b1, Root, "rappOpmerkingen", <<"O", "F", "K", " ">> \o GeneratedFileDate(now))

\* the columns the sheet loop drops: df.drop(df.columns[[...]], axis=1)
OFKBlockedIn(table, sheet) ==
    IF Listed(table, sheet) THEN FirstListed(table, sheet).columns ELSE <<>>
OFKBlockedOf(sheet) == OFKBlockedIn(OFKBlocked, sheet)
\* df.columns[[p, ...]] raises IndexError for a frame with n columns
PositionsOutOfRange(positions, n) ==
    \E j \in DOMAIN positions : positions[j] >= n \/ positions[j] < -n
\* the labels df.columns[[p, ...]] gives
LabelsAt(cols, positions) ==
    {cols[IF positions[j] < 0 THEN Len(cols) + positions[j] + 1 ELSE positions[j] + 1] :
        j \in DOMAIN positions}

\* the items of a sequence that satisfy keep, in order
RECURSIVE KeptColumns(_, _, _)
KeptColumns(cols, dropped, i) ==
    IF i > Len(cols) THEN <<>>
    ELSE (IF cols[i] \in dropped THEN <<>> ELSE <<i>>) \o KeptColumns(cols, dropped, i + 1)

\* df.T of the sheet: per data row the pairs (k, v) of the columns kept
FrameOf(s, kept) ==
    [r \in DOMAIN s.rows |->
        [c \in DOMAIN kept |-> <<s.cols[kept[c]], s.rows[r][kept[c]]>>]]
OFKFrame(s) ==
    FrameOf(s, KeptColumns(s.cols, LabelsAt(s.cols, OFKBlockedOf(s.sheet)), 1))

\* for sheet in test.sheet_names: ... dataframes.append((formName, sheet, df));
\* acc holds dataframes and columns_to_validate, and the exception if one
\* was raised
RECURSIVE OFKSheetLoop(_, _, _)
OFKSheetLoop(acc, book, i) ==
    IF i > Len(book) THEN acc
    ELSE LET s == book[i] IN
         IF s.sheet = "Formulierenoverzicht" THEN OFKSheetLoop(acc, book, i + 1)
         ELSE IF PositionsOutOfRange(OFKBlockedOf(s.sheet), Len(s.cols))
         THEN [acc EXCEPT !.err = OFKErr("IndexError", "", s.sheet)]
         ELSE OFKSheetLoop(
                [acc EXCEPT !.dataframes = Append(@, [formName |-> s.formName,
                                                       sheet |-> s.sheet,
                                                       frame |-> OFKFrame(s)]),
                            !.columns_to_validate =
                                IF HasKey(@, s.sheet) THEN @ ELSE Append(@, <<s.sheet, s.cols>>)],
                book, i + 1)

OFKSheets(book) ==
    OFKSheetLoop([err |-> NoErr, dataframes |-> <<>>, columns_to_validate |-> <<>>], book, 1)

\* the exception e if one was raised, else what the rest of the loop gives
OrElse(e, rest) == IF e = NoErr THEN rest ELSE e

\* for k, v in values.items(): the first exception of one row
RECURSIVE OFKValidateRow(_, _, _, _)
OFKValidateRow(sheet, cols, values, c) ==
    IF c > Len(values) THEN NoErr
    ELSE OrElse(OFKCheck(sheet, cols, values[c][1], values[c][2]),
                OFKValidateRow(sheet, cols, values, c + 1))

\* for key, values in data[2].items()
RECURSIVE OFKValidateFrame(_, _, _, _)
OFKValidateFrame(sheet, cols, frame, r) ==
    IF r > Len(frame) THEN NoErr
    ELSE OrElse(OFKValidateRow(sheet, cols, frame[r], 1),
                OFKValidateFrame(sheet, cols, frame, r + 1))

\* try: for data in dataframes: ... : the exception the pass raises, or NoErr
RECURSIVE OFKValidation(_, _, _)
OFKValidation(dataframes, columns_to_validate, d) ==
    IF d > Len(dataframes) THEN NoErr
    ELSE OrElse(OFKValidateFrame(dataframes[d].sheet,
                                 Get(columns_to_validate, dataframes[d].sheet),
                                 dataframes[d].frame, 1),
                OFKValidation(dataframes, columns_to_validate, d + 1))

\* the except clauses without the one for AssertionError
OFKCaughtWithoutAssertion ==
    {"IntegerValueError", "EmptyValueError", "StringValueError", "LengthValueRequiredError"}

\* the except clauses of generateXML
OFKCaught == {"IntegerValueError", "AssertionError", "EmptyValueError",
              "StringValueError", "LengthValueRequiredError"}

\* for k, v in values.items(): k = ET.SubElement(control_tag, k); k.text = str(v).strip()
RECURSIVE OFKEmitValues(_, _, _, _)
OFKEmitValues(b, control_tag, values, c) ==
    IF c > Len(values) THEN b
    ELSE OFKEmitValues(Emit(b, control_tag, values[c][1], Text(values[c][2])),
                       control_tag, values, c + 1)

\* for key, values in data[2].items(): control_tag = subformRegeltag[data[1]] ...
RECURSIVE OFKEmitRows(_, _, _, _, _)
OFKEmitRows(b, subformName, sheet, frame, r) ==
    IF r > Len(frame) THEN b
    ELSE IF ~HasKey(subformRegeltag, sheet) THEN Raise(b, "KeyError", sheet)
    ELSE LET b1 == Emit(b, subformName, Get(subformRegeltag, sheet), <<>>)
         IN OFKEmitRows(OFKEmitValues(b1, Len(b1.nodes), frame[r], 1),
                        subformName, sheet, frame, r + 1)

\* else: for data in dataframes: ...; formName is the local of that name
\* (the element made last for a form), existing_subForms the form tags met
RECURSIVE OFKBuildLoop(_, _, _, _, _)
OFKBuildLoop(b, dataframes, d, formName, existing_subForms) ==
    IF d > Len(dataframes) \/ ~Ok(b) THEN b
    ELSE LET data == dataframes[d] IN
         IF data.formName \in existing_subForms
         THEN LET b1 == Emit(b, formName, data.sheet, <<>>)
              IN OFKBuildLoop(OFKEmitRows(b1, Len(b1.nodes), data.sheet, data.frame, 1),
                              dataframes, d + 1, formName, existing_subForms)
         ELSE LET b1 == Emit(b, Root, data.formName, <<>>)
                  b2 == Emit(b1, Len(b1.nodes), data.sheet, <<>>)
              IN OFKBuildLoop(OFKEmitRows(b2, Len(b2.nodes), data.sheet, data.frame, 1),
                              dataframes, d + 1, Len(b1.nodes),
                              existing_subForms \cup {data.formName})

\* the else clause of the try: the tree of the workbook
OFKBuild(dataframes, b) == OFKBuildLoop(b, dataframes, 1, Unbound, {})

----------------------------------------------------------------------------
(* Workbooks                                                               *)

Sheet(sheet, formName, cols, rows) ==
    [sheet |-> sheet, formName |-> formName, cols |-> cols, rows |-> rows]

ValNLD == StrV(<<"N", "L", "D">>)
ValName == StrV(<<"A", "b", " ">>)

SheetADA ==
    Sheet("AD-A", "AD", <<"Regel", "Naam", "Land", "Belang", "Sector">>,
          << <<IntV(1), ValName, ValNL, IntV(40), StrV(<<"S">>)>> >>)
SheetADC ==
    Sheet("AD-C", "AD", <<"Regel", "Naam", "Land", "Aantal", "Waarde", "Opm">>,
          << <<IntV(1), ValName, ValNL, IntV(-2), IntV(7), Empty>>,
             <<IntV(2), ValName, StrV(<<"B", "E">>), IntV(3), IntV(0), Empty>> >>)
SheetPDA ==
    Sheet("PD-A", "PD", <<"Regel", "Naam", "Land", "Belang", "Sector">>,
          << <<IntV(1), ValName, ValNL, IntV(60), StrV(<<"T">>)>> >>)
SheetWVAR ==
    Sheet("WVA-R", "WV", <<"Regel", "Bedrag">>, << <<StrV(<<"R", "1">>), IntV(-5)>> >>)
\* the overview sheet, which the sheet loop skips
SheetOverview ==
    Sheet("Formulierenoverzicht", "OFK", <<"Form">>, << <<StrV(<<"A", "D">>)>> >>)

OFKTemplate == <<SheetOverview, SheetADA, SheetADC, SheetPDA, SheetWVAR>>
\* the same sheets with those of form PD between those of form AD
OFKInterleaved == <<SheetOverview, SheetADA, SheetPDA, SheetADC, SheetWVAR>>

\* the workbook with cell (r, c) of sheet s set to val
SetSheetCell(book, s, r, c, val) ==
    [book EXCEPT ![s].rows[r][c] = val]
\* the workbook with column tag c of sheet s written as tag
SetColumnTag(book, s, c, tag) ==
    [book EXCEPT ![s].cols[c] = tag]

OFKCellValues == {Empty, IntV(-1), IntV(12), FltV(15), ValNL, ValNLD}

OFKCellInputs ==
    {SetSheetCell(OFKTemplate, 2, 1, c, v) : c \in 2..5, v \in OFKCellValues}
    \cup {SetSheetCell(OFKTemplate, 3, r, c, v) : r \in 1..2, c \in 4..5, v \in OFKCellValues}
    \cup {SetSheetCell(OFKTemplate, 5, 1, 2, v) : v \in OFKCellValues}

OFKPaddedInputs ==
    {SetSheetCell(SetColumnTag(OFKTemplate, 2, 3, "Land "), 2, 1, 3, v) : v \in OFKCellValues}
    \cup {SetSheetCell(SetColumnTag(OFKTemplate, 5, 2, " Bedrag"), 5, 1, 2, v) : v \in OFKCellValues}

OFKShapeInputs ==
    {OFKInterleaved, <<>>, <<SheetOverview>>, <<SheetWVAR, SheetADA>>,
     \* a sheet the dict subformRegeltag does not know
     <<SheetADA, Sheet("Extra", "AD", <<"Regel">>, << <<IntV(1)>> >>)>>,
     \* a sheet with fewer columns than the branch of its name indexes
     <<Sheet("WVA-R", "WV", <<"Regel">>, << <<IntV(1)>> >>)>>,
     <<Sheet("WVA-B", "WV", <<"Regel">>, << <<IntV(1)>> >>)>>}

OFKInputs == {OFKTemplate} \cup OFKCellInputs \cup OFKPaddedInputs \cup OFKShapeInputs

OFKBatchInputs ==
    {OFKTemplate, OFKInterleaved,
     SetSheetCell(OFKTemplate, 2, 1, 4, Empty),
     SetSheetCell(OFKTemplate, 3, 1, 5, IntV(-1))}

----------------------------------------------------------------------------
(* The run of one script                                                   *)

MaxFiles == 2

\* the i-th file name glob gives: a stem and an extension
File(i) == [stem |-> i, ext |-> IF i % 2 = 1 THEN "xlsx" ELSE "xls"]
\* os.path.splitext(file)[0] + '.xml'
OutputName(file) == [stem |-> file.stem, ext |-> "xml"]

Clock == {[year |-> 2020, month |-> 5, day |-> 4, hour |-> 9, minute |-> 30, second |-> 0],
          [year |-> 2021, month |-> 1, day |-> 15, hour |-> 23, minute |-> 5, second |-> 59]}
\* generateXML reads the month only: a late month as well
OFKClock ==
    Clock \cup {[year |-> 2020, month |-> 11, day |-> 30, hour |-> 12, minute |-> 0, second |-> 0]}

LocalNames == {"AIFMRecordInfo", "AIFMCompleteDescription",
               "AIFRecordInfo", "AIFCompleteDescription", "AIFPrincipalInfo",
               "AIFDescription", "AIFIdentification", "PrimeBrokerIdentification",
               "MostImportantConcentration", "CounterpartyIdentification",
               "MarketIdentification"}

Inputs(p) == CASE p = "AIFM" -> AIFMInputs [] p = "AIF" -> AIFInputs [] p = "OFK" -> OFKInputs
BatchInputs(p) ==
    CASE p = "AIFM" -> AIFMBatchInputs [] p = "AIF" -> AIFBatchInputs [] p = "OFK" -> OFKBatchInputs

Init ==
    /\ prog \in {"AIFM", "AIF", "OFK"}
    /\ \E n \in 0..MaxFiles : files = [i \in 1..n |-> File(i)]
    /\ disk \in [{files[i] : i \in DOMAIN files} ->
                    IF Len(files) <= 1 THEN Inputs(prog) ELSE BatchInputs(prog)]
    /\ today \in (IF prog = "OFK" THEN OFKClock ELSE Clock)
    /\ idx = 0
    /\ pc = "start"
    /\ df = <<>>
    /\ root = [tag |-> "", attrs |-> <<>>]
    /\ nodes = <<>>
    /\ locals = [n \in LocalNames |-> Unbound]
    /\ written = <<>>
    /\ log = <<>>
    /\ xmls = <<>>
    /\ calls = <<>>

\* the build at the current position
Cur == [err |-> NoErr, root |-> root, nodes |-> nodes, loc |-> locals]

\* what the handler does with the exception: AIFM.py has logger.error(e),
\* AIF.py has print(e)
Report(e) ==
    [kind |-> e.kind, msg |-> e.msg,
     via |-> IF prog = "AIFM" THEN "logger.error" ELSE "print"]

\* a section that reports its exception and goes on with the next section
SectionContinuing(at, next, b) ==
    /\ pc = at
    /\ root' = b.root
    /\ nodes' = b.nodes
    /\ locals' = b.loc
    /\ pc' = next
    /\ log' = IF Ok(b) THEN log ELSE Append(log, Report(b.err))
    /\ UNCHANGED <<prog, files, disk, today, idx, df, written, xmls, calls>>

\* one section of the loop body: on an exception control leaves the for loop
\* for the handler `except Exception as e`, which reports e; the function
\* then returns
Section(at, next, b) ==
    /\ pc = at
    /\ root' = b.root
    /\ nodes' = b.nodes
    /\ locals' = b.loc
    /\ IF Ok(b)
       THEN pc' = next /\ log' = log
       ELSE pc' = "done" /\ log' = Append(log, Report(b.err))
    /\ UNCHANGED <<prog, files, disk, today, idx, df, written, xmls, calls>>

\* a start that returns on an empty list without raising
StartSilently ==
    /\ prog \in {"AIFM", "AIF"}
    /\ pc = "start"
    /\ IF Len(files) = 0
       THEN pc' = "done" /\ idx' = idx
       ELSE pc' = "read" /\ idx' = 1
    /\ UNCHANGED <<prog, files, disk, today, df, root, nodes, locals, written, log, xmls,
                   calls>>

\* if len(files) == 0: raise NoFilesFoundError; else enter the for loop
Start ==
    /\ prog \in {"AIFM", "AIF"}
    /\ pc = "start"
    /\ IF Len(files) = 0
       THEN /\ pc' = "done"
            /\ log' = Append(log, Report(Err("NoFilesFoundError",
                   "No excel files selected. Specify path to excel document and try again!")))
            /\ idx' = idx
       ELSE /\ pc' = "read"
            /\ idx' = 1
            /\ log' = log
    /\ UNCHANGED <<prog, files, disk, today, df, root, nodes, locals, written, xmls, calls>>

\* for file in files: ... df = pd.read_excel(file, header=None)
AIFMRead ==
    /\ prog = "AIFM"
    /\ pc = "read"
    /\ idx <= Len(files)
    /\ df' = disk[files[idx]]
    /\ pc' = "header"
    /\ locals' = [n \in LocalNames |-> IF locals[n] = Unbound THEN Unbound ELSE Stale]
    /\ UNCHANGED <<prog, files, disk, today, idx, root, nodes, written, log, xmls, calls>>

AIFMHeaderStep == prog = "AIFM" /\ Section("header", "recordInfo", AIFMHeader(df, today, Cur))
AIFMRecordInfoStep == prog = "AIFM" /\ Section("recordInfo", "change", AIFMRecordInfoSection(df, Cur))
AIFMChangeStep == prog = "AIFM" /\ Section("change", "section16", AIFMChangeSection(df, Cur))
AIFMSection16Step == prog = "AIFM" /\ Section("section16", "identifiers", AIFMSection16(df, Cur))
AIFMIdentifierStep == prog = "AIFM" /\ Section("identifiers", "markets", AIFMIdentifierSection(df, Cur))
AIFMMarketsStep == prog = "AIFM" /\ Section("markets", "instruments", AIFMPrincipalMarketsSection(df, Cur))
AIFMInstrumentsStep == prog = "AIFM" /\ Section("instruments", "values", AIFMPrincipalInstrumentsSection(df, Cur))
AIFMValuesStep == prog = "AIFM" /\ Section("values", "write", AIFMValuesSection(df, Cur))

\* tree.write(output_file + '.xml'), the last statement of the loop body
AIFMWrite ==
    /\ prog = "AIFM"
    /\ pc = "write"
    /\ written' = (OutputName(files[idx]) :> [root |-> root, nodes |-> nodes]) @@ written
    /\ idx' = idx + 1
    /\ pc' = "read"
    /\ UNCHANGED <<prog, files, disk, today, df, root, nodes, locals, log, xmls, calls>>

\* the for loop is exhausted: the function returns
AIFMReturn ==
    /\ prog = "AIFM"
    /\ pc = "read"
    /\ idx > Len(files)
    /\ pc' = "done"
    /\ UNCHANGED <<prog, files, disk, today, idx, df, root, nodes, locals, written, log, xmls, calls>>

NextAIFM ==
    \/ AIFMRead \/ AIFMHeaderStep \/ AIFMRecordInfoStep \/ AIFMChangeStep
    \/ AIFMSection16Step \/ AIFMIdentifierStep \/ AIFMMarketsStep
    \/ AIFMInstrumentsStep \/ AIFMValuesStep \/ AIFMWrite \/ AIFMReturn

\* for file in files: ... df = pd.read_excel(file, header=None)
AIFRead ==
    /\ prog = "AIF"
    /\ pc = "read"
    /\ idx <= Len(files)
    /\ df' = disk[files[idx]]
    /\ pc' = "header"
    /\ locals' = [n \in LocalNames |-> IF locals[n] = Unbound THEN Unbound ELSE Stale]
    /\ UNCHANGED <<prog, files, disk, today, idx, root, nodes, written, log, xmls, calls>>

AIFStep(at, next, b) == prog = "AIF" /\ Section(at, next, b)

AIFHeaderStep == AIFStep("header", "recordInfo", AIFHeader(df, today, Cur))
AIFRecordInfoStep == AIFStep("recordInfo", "change", AIFRecordInfoSection(df, Cur))
AIFChangeStep == AIFStep("change", "section16", AIFChangeSection(df, Cur))
AIFSection16Step == AIFStep("section16", "identifiers", AIFSection16(df, Cur))
AIFIdentifierStep == AIFStep("identifiers", "shareClass", AIFIdentifierSection(df, Cur))
AIFShareClassStep == AIFStep("shareClass", "masterFeeder", AIFShareClassSection(df, Cur))
AIFMasterFeederStep == AIFStep("masterFeeder", "primeBrokers", AIFMasterFeederSection(df, Cur))
AIFPrimeBrokersStep == AIFStep("primeBrokers", "values", AIFPrimeBrokersSection(df, Cur))
AIFValuesStep == AIFStep("values", "jurisdiction", AIFValuesSection(df, Cur))
AIFJurisdictionStep == AIFStep("jurisdiction", "strategy", AIFJurisdictionSection(df, Cur))
AIFStrategyStep == AIFStep("strategy", "hft", AIFStrategySection(df, Cur))
AIFHFTStep == AIFStep("hft", "instruments", AIFHFTSection(df, Cur))
AIFMainInstrumentsStep == AIFStep("instruments", "navFocus", AIFMainInstrumentsSection(df, Cur))
AIFNAVFocusStep == AIFStep("navFocus", "aumFocus", AIFNAVFocusSection(df, Cur))
AIFAUMFocusStep == AIFStep("aumFocus", "exposures", AIFAUMFocusSection(df, Cur))
AIFPrincipalExposuresStep == AIFStep("exposures", "concentrations", AIFPrincipalExposuresSection(df, Cur))
AIFPortfolioConcentrationsStep == AIFStep("concentrations", "typicalSize", AIFPortfolioConcentrationsSection(df, Cur))
AIFTypicalPositionSizeStep == AIFStep("typicalSize", "markets", AIFTypicalPositionSizeSection(df, Cur))
AIFPrincipalMarketsStep == AIFStep("markets", "investors", AIFPrincipalMarketsSection(df, Cur))
AIFInvestorConcentrationStep == AIFStep("investors", "next", AIFInvestorConcentrationSection(df, Cur))

\* the end of the loop body: on to the next file
AIFNextFile ==
    /\ prog = "AIF"
    /\ pc = "next"
    /\ idx' = idx + 1
    /\ pc' = "read"
    /\ UNCHANGED <<prog, files, disk, today, df, root, nodes, locals, written, log, xmls, calls>>

\* after the for loop: tree = ET.ElementTree(root); tree.write(output + '.xml'),
\* with root and output as the last iteration left them
AIFWrite ==
    /\ prog = "AIF"
    /\ pc = "read"
    /\ idx > Len(files)
    /\ written' = (OutputName(files[idx - 1]) :> [root |-> root, nodes |-> nodes]) @@ written
    /\ pc' = "done"
    /\ UNCHANGED <<prog, files, disk, today, idx, df, root, nodes, locals, log, xmls, calls>>

NextAIF ==
    \/ AIFRead \/ AIFHeaderStep \/ AIFRecordInfoStep \/ AIFChangeStep \/ AIFSection16Step
    \/ AIFIdentifierStep \/ AIFShareClassStep \/ AIFMasterFeederStep
    \/ AIFPrimeBrokersStep \/ AIFValuesStep \/ AIFJurisdictionStep \/ AIFStrategyStep
    \/ AIFHFTStep \/ AIFMainInstrumentsStep \/ AIFNAVFocusStep \/ AIFAUMFocusStep
    \/ AIFPrincipalExposuresStep \/ AIFPortfolioConcentrationsStep
    \/ AIFTypicalPositionSizeStep \/ AIFPrincipalMarketsStep
    \/ AIFInvestorConcentrationStep \/ AIFNextFile \/ AIFWrite

\* the name of a file as the log messages show it
FileText(file) == ToString(file.stem) \o "." \o file.ext

\* for file in files: the header and the sheet loop of one workbook.  An
\* exception here is outside every try: it ends the run with a traceback
Traceback(e) == [kind |-> e.kind, msg |-> e.msg, via |-> "traceback"]

OFKReadInto(b, acc) ==
    /\ root' = b.root
    /\ nodes' = b.nodes
    /\ IF acc.err = NoErr
       THEN /\ df' = [dataframes |-> acc.dataframes,
                      columns_to_validate |-> acc.columns_to_validate]
            /\ pc' = "validate"
            /\ log' = log
       ELSE /\ df' = df
            /\ pc' = "raised"
            /\ log' = Append(log, Traceback(acc.err))

OFKRead ==
    /\ prog = "OFK"
    /\ pc = "read"
    /\ idx <= Len(files)
    /\ OFKReadInto(OFKHeader(today, Cur), OFKSheets(disk[files[idx]]))
    /\ UNCHANGED <<prog, files, disk, today, idx, locals, written, xmls, calls>>

\* the first line each handler logs; two of them lack the f prefix
OFKErrorOccurred(kind, file) ==
    IF kind \in {"AssertionError", "LengthValueRequiredError"}
    THEN "Error Ocurred in {file}!!!"
    ELSE "Error Ocurred in " \o FileText(file) \o "!!!"

\* try: the validation pass; except ...: the handlers, after which the for
\* loop goes on with the next file
OFKHandlers(e) ==
    IF e = NoErr
    THEN pc' = "build" /\ log' = log /\ idx' = idx
    ELSE IF e.kind \in OFKCaught
    THEN /\ log' = log \o <<[kind |-> e.kind, msg |-> OFKErrorOccurred(e.kind, files[idx]),
                             via |-> "logger.error"],
                            [kind |-> e.kind, msg |-> e.msg, via |-> "logger.error"]>>
         /\ idx' = idx + 1
         /\ pc' = "read"
    ELSE /\ log' = Append(log, Traceback(e))
         /\ idx' = idx
         /\ pc' = "raised"

OFKValidate ==
    /\ prog = "OFK"
    /\ pc = "validate"
    /\ OFKHandlers(OFKValidation(df.dataframes, df.columns_to_validate, 1))
    /\ UNCHANGED <<prog, files, disk, today, df, root, nodes, locals, written, xmls, calls>>

\* else: the tree of the workbook and tree.write(output + '.xml')
OFKWrite(b) ==
    /\ root' = b.root
    /\ nodes' = b.nodes
    /\ IF Ok(b)
       THEN /\ written' = (OutputName(files[idx]) :> [root |-> b.root, nodes |-> b.nodes])
                          @@ written
            /\ idx' = idx + 1
            /\ pc' = "read"
            /\ log' = log
       ELSE /\ written' = written
            /\ idx' = idx
            /\ pc' = "raised"
            /\ log' = Append(log, Traceback(b.err))

OFKBuildStep ==
    /\ prog = "OFK"
    /\ pc = "build"
    /\ OFKWrite(OFKBuild(df.dataframes, Cur))
    /\ UNCHANGED <<prog, files, disk, today, df, locals, xmls, calls>>

\* the for loop is exhausted: generateXML returns
OFKReturn ==
    /\ prog = "OFK"
    /\ pc = "read"
    /\ idx > Len(files)
    /\ pc' = "done"
    /\ UNCHANGED <<prog, files, disk, today, idx, df, root, nodes, locals, written, log,
                   xmls, calls>>

\* generateXML has no check of len(files): the for loop starts at once
OFKStart ==
    /\ prog = "OFK"
    /\ pc = "start"
    /\ pc' = "read"
    /\ idx' = 1
    /\ UNCHANGED <<prog, files, disk, today, df, root, nodes, locals, written, log,
                   xmls, calls>>

NextOFK == OFKStart \/ OFKRead \/ OFKValidate \/ OFKBuildStep \/ OFKReturn

----------------------------------------------------------------------------
(* __main__ after the generator returned: xmls = glob.glob("*.xml") and    *)
(* validate_XML_AIFM / validate_XML_AIF / validate_XML_OFKFiles(xmls)      *)

\* the XSD each validator loads
ValidatorSchema ==
    [AIFM |-> <<"A", "I", "F", "M", "D", "_", "D", "A", "T", "M", "A", "N",
                "_", "V", "1", ".", "2", ".", "x", "s", "d">>,
     AIF |-> <<"A", "I", "F", "M", "D", "_", "D", "A", "T", "A", "I", "F",
               "_", "V", "1", ".", "2", ".", "x", "s", "d">>,
     OFK |-> <<"O", "F", "K", "-", "K", ".", "2", "0", "2", "0", "-", "0", "3",
               ".", "x", "s", "d">>]

\* the lists glob may give for a set of files: every order of them
Orders(S) ==
    {s \in [1..Cardinality(S) -> S] : \A i, j \in DOMAIN s : i # j => s[i] # s[j]}

\* xmls = glob.glob("*.xml"): the documents in the directory, in the order
\* the file system gives them
MainGlob ==
    /\ pc = "done"
    /\ xmls' \in Orders(DOMAIN written)
    /\ pc' = "validate_xml"
    /\ UNCHANGED <<prog, files, disk, today, idx, df, root, nodes, locals, written, log,
                   calls>>

\* one iteration of `for file in files` of the validator: parse, load the
\* XSD, validate; the outcome is the schema's, which the model leaves open
ValidateFile ==
    /\ pc = "validate_xml"
    /\ Len(calls) < Len(xmls)
    /\ \E is_valid \in BOOLEAN :
         LET file == xmls[Len(calls) + 1] IN
         /\ calls' = Append(calls, [file |-> file, schema |-> ValidatorSchema[prog],
                                    is_valid |-> is_valid])
         /\ log' = Append(log,
               IF is_valid
               THEN [kind |-> "validated",
                     msg |-> FileText(file) \o " has successfully been validated!",
                     via |-> "logger.debug"]
               ELSE [kind |-> "invalid",
                     msg |-> "Validation for " \o FileText(file) \o " was unsuccessful!",
                     via |-> "logger.error"])
    /\ UNCHANGED <<prog, files, disk, today, idx, pc, df, root, nodes, locals, written, xmls>>

\* a validator that gives up at the first document the schema rejects
ValidateReturnAtFailure ==
    /\ pc = "validate_xml"
    /\ \/ Len(calls) = Len(xmls)
       \/ calls # <<>> /\ ~calls[Len(calls)].is_valid
    /\ pc' = "exit"
    /\ UNCHANGED <<prog, files, disk, today, idx, df, root, nodes, locals, written, log,
                   xmls, calls>>

\* the validator's for loop is exhausted
ValidateReturn ==
    /\ pc = "validate_xml"
    /\ Len(calls) = Len(xmls)
    /\ pc' = "exit"
    /\ UNCHANGED <<prog, files, disk, today, idx, df, root, nodes, locals, written, log,
                   xmls, calls>>

NextMain == MainGlob \/ ValidateFile \/ ValidateReturn

Next == Start \/ NextAIFM \/ NextAIF \/ NextOFK \/ NextMain

Spec == Init /\ [][Next]_vars

----------------------------------------------------------------------------
(* What one file gives when converted on its own                           *)

Last(s) == s[Len(s)]

\* the build before the first statement of the script
Fresh == [err |-> NoErr, root |-> [tag |-> "", attrs |-> <<>>], nodes |-> <<>>,
          loc |-> [n \in LocalNames |-> Unbound]]

\* the tree a build holds: what tree.write puts in the file
Tree(b) == [root |-> b.root, nodes |-> b.nodes]

\* the body of the for loop of aif_xml applied to the sheet t
AIFBody(t, now) ==
    LET s1 == AIFHeader(t, now, Fresh)
        s2 == IF Ok(s1) THEN AIFRecordInfoSection(t, s1) ELSE s1
        s3 == IF Ok(s2) THEN AIFChangeSection(t, s2) ELSE s2
        s4 == IF Ok(s3) THEN AIFSection16(t, s3) ELSE s3
        s5 == IF Ok(s4) THEN AIFIdentifierSection(t, s4) ELSE s4
        s6 == IF Ok(s5) THEN AIFShareClassSection(t, s5) ELSE s5
        s7 == IF Ok(s6) THEN AIFMasterFeederSection(t, s6) ELSE s6
        s8 == IF Ok(s7) THEN AIFPrimeBrokersSection(t, s7) ELSE s7
        s9 == IF Ok(s8) THEN AIFValuesSection(t, s8) ELSE s8
        s10 == IF Ok(s9) THEN AIFJurisdictionSection(t, s9) ELSE s9
        s11 == IF Ok(s10) THEN AIFStrategySection(t, s10) ELSE s10
        s12 == IF Ok(s11) THEN AIFHFTSection(t, s11) ELSE s11
        s13 == IF Ok(s12) THEN AIFMainInstrumentsSection(t, s12) ELSE s12
        s14 == IF Ok(s13) THEN AIFNAVFocusSection(t, s13) ELSE s13
        s15 == IF Ok(s14) THEN AIFAUMFocusSection(t, s14) ELSE s14
        s16 == IF Ok(s15) THEN AIFPrincipalExposuresSection(t, s15) ELSE s15
        s17 == IF Ok(s16) THEN AIFPortfolioConcentrationsSection(t, s16) ELSE s16
        s18 == IF Ok(s17) THEN AIFTypicalPositionSizeSection(t, s17) ELSE s17
        s19 == IF Ok(s18) THEN AIFPrincipalMarketsSection(t, s18) ELSE s18
    IN IF Ok(s19) THEN AIFInvestorConcentrationSection(t, s19) ELSE s19

\* the body of the for loop of convert_to_xml applied to the sheet t
AIFMBody(t, now) ==
    LET s1 == AIFMHeader(t, now, Fresh)
        s2 == IF Ok(s1) THEN AIFMRecordInfoSection(t, s1) ELSE s1
        s3 == IF Ok(s2) THEN AIFMChangeSection(t, s2) ELSE s2
        s4 == IF Ok(s3) THEN AIFMSection16(t, s3) ELSE s3
        s5 == IF Ok(s4) THEN AIFMIdentifierSection(t, s4) ELSE s4
        s6 == IF Ok(s5) THEN AIFMPrincipalMarketsSection(t, s5) ELSE s5
        s7 == IF Ok(s6) THEN AIFMPrincipalInstrumentsSection(t, s6) ELSE s6
    IN IF Ok(s7) THEN AIFMValuesSection(t, s7) ELSE s7

\* the cell Input_1 of the row of sheet t whose Id is str(n)
Cell(t, n) == In(RowsById(t, {StrV(Digits(n))})[1], 1)
\* the tag of that row
TagOf(t, n) == RowsById(t, {StrV(Digits(n))})[1].xmlTags

\* the children of element e of the tree under construction
Children(e) == {i \in DOMAIN nodes : nodes[i].parent = e}
\* some element of the tree has this tag / this tag and text
HasTag(tag) == \E i \in DOMAIN nodes : nodes[i].tag = tag
HasElement(tag, text) == \E i \in DOMAIN nodes : nodes[i].tag = tag /\ nodes[i].text = text

\* the run ended in the handler while converting file idx
Failed == pc = "done" /\ idx \in DOMAIN files /\ log # <<>>

----------------------------------------------------------------------------
(* Properties                                                              *)

\* C1: in both scripts, a validation failure in one file is reported and
\* every later file of the batch is still processed: the run never ends with
\* a file after the failing one left unconverted.
C1_LaterFilesProcessed ==
    (pc = "done" /\ files # <<>>) =>
        /\ idx \in DOMAIN files => log # <<>>
        /\ idx >= Len(files)

\* C2: after aif_xml ran without error on n files, n documents are written,
\* one per input file, named after it and holding the tree built from it.
C2_OneDocumentPerFile ==
    (prog = "AIF" /\ pc = "done" /\ log = <<>>) =>
        /\ DOMAIN written = {OutputName(files[i]) : i \in DOMAIN files}
        /\ \A i \in DOMAIN files :
               written[OutputName(files[i])] = Tree(AIFBody(disk[files[i]], today))

\* the rows of an AIFM sheet that hold an unconditionally required field
\* with nothing in it
EmptyRequired(t) ==
    {n \in AIFMRequiredIds : RowsById(t, {StrV(Digits(n))}) # <<>> /\ IsEmpty(Cell(t, n))}

\* the message names the field: it starts with the field's tag
NamesField(msg, tag) ==
    msg \in {tag \o " field cannot be empty!",
             tag \o " field cannot be empty! Check value in row 46 column D"}

\* C3: in convert_to_xml a file with an empty unconditionally required field
\* (rows 4-9, LastReportingFlag, rows 16-21, AUMAmountInEuro) fails and gets
\* no XML file; when that is its only violation, the reported error is an
\* EmptyValueError naming that field.
C3_RequiredFieldEmpty ==
    prog = "AIFM" =>
        /\ \A j \in DOMAIN files :
               EmptyRequired(disk[files[j]]) # {} =>
                   /\ OutputName(files[j]) \notin DOMAIN written
                   /\ idx <= j
                   /\ idx = j => pc # "write"
                   /\ (idx = j /\ pc = "done") => log # <<>>
        /\ \A n \in AIFMRequiredIds :
               (Failed /\ df = SetInput(AIFMTemplate, n, Empty)) =>
                   /\ Last(log).kind = "EmptyValueError"
                   /\ NamesField(Last(log).msg, TagOf(AIFMTemplate, n))

\* C3 happens: a run ended on a sheet whose only flaw is the empty AUMAmountInEuro
C3_Witness ==
    /\ prog = "AIFM" /\ Failed
    /\ df = SetInput(AIFMTemplate, 33, Empty)
    /\ written = <<>>
    /\ NamesField(Last(log).msg, "AUMAmountInEuro")

\* a whole number that is not negative
UnsignedInteger(x) == IsInt(x) /\ x.v >= 0
IsMarketRow(r) == \E m \in PrincipalMRows : PyEq(r.Id, m)
IsInstrumentRow(r) == \E m \in PrincipalIRow : PyEq(r.Id, m)

\* C4: in convert_to_xml a negative or non-integral unsigned-integer value
\* (AUMAmountInEuro, AUMAmountInBaseCurrency, AggregatedValueAmount of a
\* market or an instrument) never reaches the written document, and a zero or
\* positive whole one is the text of its element in it.
C4_UnsignedIntegers ==
    (prog = "AIFM" /\ pc = "write") =>
        /\ \A n \in {33, 34} :
               /\ NotEmpty(Cell(df, n)) => UnsignedInteger(Cell(df, n))
               /\ UnsignedInteger(Cell(df, n)) =>
                      HasElement(TagOf(df, n), Digits(Cell(df, n).v))
        /\ \A i \in DOMAIN df :
               (IsMarketRow(df[i]) /\ ~PyEq(df[i].XMLDescription, LitNOT)) =>
                   /\ UnsignedInteger(In(df[i], 2))
                   /\ HasElement("AggregatedValueAmount", Digits(In(df[i], 2).v))
        /\ \A i \in DOMAIN df :
               (IsInstrumentRow(df[i]) /\ ~PyEq(df[i].XMLDescription, LitNTA_NTA_NOTA)) =>
                   /\ UnsignedInteger(In(df[i], 1))
                   /\ HasElement("AggregatedValueAmount", Digits(In(df[i], 1).v))

\* the base-currency rows of a sheet of the running script, by tag
PrincipalValues(t) ==
    TagDict(RowsById(t, IF prog = "AIFM" THEN StrRange(33, 39) ELSE StrRange(48, 54)))
BaseCurrencyOf(t) == Get(PrincipalValues(t), "BaseCurrency")
RateTypeOf(t) == Get(PrincipalValues(t), "FXEURReferenceRateType")
RateOf(t) == Get(PrincipalValues(t), "FXEURRate")
OtherDescriptionOf(t) == Get(PrincipalValues(t), "FXEUROtherReferenceRateDescription")
LitUSD == <<"U", "S", "D">>
IsUSD(v) == IsStr(v) /\ UpperStrip(v) = LitUSD
NotWritten(j) == OutputName(files[j]) \notin DOMAIN written

\* C5: in both scripts a file whose BaseCurrency is USD and whose
\* FXEURReferenceRateType is empty gets no document, whatever the other
\* base-currency cells hold, and the error reported for it is an
\* EmptyValueError citing the FX reference-rate fields.
C5_ReferenceRateTypeRequired ==
    LET Case(t) == IsUSD(BaseCurrencyOf(t)) /\ IsEmpty(RateTypeOf(t)) IN
    prog \in {"AIFM", "AIF"} =>
        /\ \A j \in DOMAIN files : Case(disk[files[j]]) => NotWritten(j)
        /\ (Failed /\ Case(df)) =>
               /\ Last(log).kind = "EmptyValueError"
               /\ Last(log).msg \in
                      {"FXEURReferenceRateType or FXEURRate fields cannot be empty! Check value in rows 49-50 column D",
                       " FXEURRate & FXEURReferenceRateType cannot be empty"}

\* C6: in convert_to_xml a file with BaseCurrency USD, FXEURReferenceRateType
\* OTH and no FXEUROtherReferenceRateDescription gets no document, and a
\* document holds a FXEUROtherReferenceRateDescription element only when the
\* reference-rate type is OTH.
C6_OtherDescriptionRequired ==
    LET Case(t) == /\ IsUSD(BaseCurrencyOf(t)) /\ PyEq(RateTypeOf(t), LitOTH)
                   /\ IsEmpty(OtherDescriptionOf(t)) IN
    prog = "AIFM" =>
        /\ \A j \in DOMAIN files : Case(disk[files[j]]) => NotWritten(j)
        /\ (pc = "write" /\ HasTag("FXEUROtherReferenceRateDescription")) =>
               PyEq(RateTypeOf(df), LitOTH)

\* the case of C7: USD, a rate given, type OTH, no description
OtherDescriptionOmitted(t) ==
    /\ IsUSD(BaseCurrencyOf(t)) /\ NotEmpty(RateOf(t))
    /\ IsStr(RateTypeOf(t)) /\ UpperStrip(RateTypeOf(t)) = LitOTH.v
    /\ IsEmpty(OtherDescriptionOf(t))

\* C7: in aif_xml a file with BaseCurrency USD, a FXEURRate, the
\* FXEURReferenceRateType OTH and no FXEUROtherReferenceRateDescription fails
\* with an EmptyValueError and gets no document.
C7_OtherDescriptionRequired ==
    prog = "AIF" =>
        /\ \A j \in DOMAIN files :
               OtherDescriptionOmitted(disk[files[j]]) => NotWritten(j) /\ idx <= j
        /\ (pc = "done" /\ idx \in DOMAIN files /\ OtherDescriptionOmitted(df)) =>
               log # <<>> /\ Last(log).kind = "EmptyValueError"

\* C7 happens: the run ended on the missing description
C7_Witness ==
    /\ prog = "AIF" /\ Failed /\ OtherDescriptionOmitted(df)
    /\ Last(log).msg = "FXEUROthReferenceRateDescription cannot be empty"
    /\ written = <<>>

\* len(AssumptionDescription) > 300
TooLong(t) == IsStr(Cell(t, 15)) /\ Len(Cell(t, 15).v) > MaxAssumptionDescription

\* C8: in both scripts a file whose AssumptionDescription is longer than 300
\* characters fails with LengthValueRequiredError and gets no document.
C8_AssumptionDescriptionLength ==
    prog \in {"AIFM", "AIF"} =>
        /\ \A j \in DOMAIN files : TooLong(disk[files[j]]) => NotWritten(j)
        /\ (Failed /\ TooLong(df)) => Last(log).kind = "LengthValueRequiredError"

\* a build with every local bound, to evaluate one section by itself
Probe ==
    [err |-> NoErr, root |-> [tag |-> "", attrs |-> <<>>], nodes |-> <<>>,
     loc |-> [n \in LocalNames |-> Root]]
\* what each section of the body raises on the sheet when evaluated by
\* itself, in the order of the code
AIFMSectionErrors(t, now) ==
    <<AIFMHeader(t, now, Probe).err,
      AIFMRecordInfoSection(t, Probe).err,
      AIFMChangeSection(t, Probe).err,
      AIFMSection16(t, Probe).err,
      AIFMIdentifierSection(t, Probe).err,
      AIFMPrincipalMarketsSection(t, Probe).err,
      AIFMPrincipalInstrumentsSection(t, Probe).err,
      AIFMValuesSection(t, Probe).err>>
ViolatedSections(errs) == {k \in DOMAIN errs : errs[k] # NoErr}
FirstViolated(errs) ==
    CHOOSE k \in ViolatedSections(errs) : \A h \in ViolatedSections(errs) : k <= h

\* the principal-market rows whose code type is none of MIC, XXX, OTC, NOT
BadMarketRows(t) ==
    {i \in DOMAIN t : IsMarketRow(t[i]) /\ t[i].XMLDescription \notin MarketCodeTypes}

\* C9: in convert_to_xml a file with a principal-market row ('1st'..'5th')
\* whose code type is outside {MIC, XXX, OTC, NOT} gets no document and its
\* construction stops before the instruments; the error reported is
\* DomainValueError whenever no section before the principal markets has
\* already failed on the sheet.
C9_MarketCodeTypeDomain ==
    prog = "AIFM" =>
        /\ \A j \in DOMAIN files :
               BadMarketRows(disk[files[j]]) # {} =>
                   /\ NotWritten(j)
                   /\ idx <= j
                   /\ idx = j => pc \notin {"instruments", "values", "write"}
        /\ (pc = "done" /\ idx \in DOMAIN files /\ BadMarketRows(df) # {}) =>
               /\ log # <<>>
               /\ (\A h \in 1..5 : AIFMSectionErrors(df, today)[h] = NoErr) =>
                      Last(log).kind = "DomainValueError"

\* C9 happens: the run ended on a market row with the code type BAD
C9_Witness ==
    /\ prog = "AIFM" /\ Failed
    /\ \E i \in BadMarketRows(df) : df[i].XMLDescription = ValBAD
    /\ Last(log).kind = "DomainValueError"
    /\ written = <<>>

\* '1st' -> 1, ..., '5th' -> 5
IdRank(id) == CHOOSE k \in 1..5 : Digits(k) = <<id.v[1]>>
\* the text of the child of element e with this tag
HasChild(e, tag, text) ==
    \E c \in Children(e) : nodes[c].tag = tag /\ nodes[c].text = text
MarketElements == {e \in DOMAIN nodes : nodes[e].tag = "AIFMFivePrincipalMarket"}
RankingOf(e) ==
    ParseUInt(nodes[CHOOSE c \in Children(e) : nodes[c].tag = "Ranking"].text)

\* C10: in convert_to_xml the principal markets are emitted in rank order
\* and the market of row '1st' carries Ranking 1, ..., that of row '5th'
\* Ranking 5, wherever the rows stand in the sheet.
C10_RankingByIdentifier ==
    (prog = "AIFM" /\ pc = "write") =>
        /\ \A e1, e2 \in MarketElements : e1 < e2 => RankingOf(e1) < RankingOf(e2)
        /\ \A i \in DOMAIN df :
               IsMarketRow(df[i]) =>
                   \E e \in MarketElements :
                       /\ HasChild(e, "Ranking", Digits(IdRank(df[i].Id)))
                       /\ \E m \in Children(e) :
                              /\ nodes[m].tag = "MarketIdentification"
                              /\ HasChild(m, "MarketCodeType", Text(df[i].XMLDescription))
                       /\ ~PyEq(df[i].XMLDescription, LitNOT) =>
                              HasChild(e, "AggregatedValueAmount", Text(In(df[i], 2)))

\* the position, among the elements under AIFMRecordInfo, of the one made
\* from the row str(n) of the sheet being converted
RecordInfoPosition(n) ==
    CHOOSE i \in Children(locals["AIFMRecordInfo"]) : nodes[i].tag = TagOf(df, n)

\* C11: in convert_to_xml the children of AIFMRecordInfo made from rows 4-9
\* and from rows 16-21 stand in ascending order of row identifier, in
\* whatever order those rows stand in the sheet.
C11_DeclaredOrder ==
    (prog = "AIFM" /\ pc = "write") =>
        \A r \in {4..9, 16..21} :
            \A m, n \in r : m < n => RecordInfoPosition(m) < RecordInfoPosition(n)

----------------------------------------------------------------------------
(* OFK documents                                                           *)

\* the sheets of a workbook that the sheet loop takes up
Subforms(book) == {i \in DOMAIN book : book[i].sheet # "Formulierenoverzicht"}
\* the elements of a document that are children of the root / of element e
DocChildren(doc, e) == {i \in DOMAIN doc.nodes : doc.nodes[i].parent = e}
\* the subform elements: the children of the children of the root
SubformElements(doc) ==
    {i \in DOMAIN doc.nodes :
        doc.nodes[i].parent # Root /\ doc.nodes[doc.nodes[i].parent].parent = Root}

\* C12: in a document generateXML wrote, each form tag occurs at most once
\* as a child of the root, and the element of every sheet is a child of the
\* form element that has the tag of the sheet's own form, also when sheets of
\* different forms alternate in the workbook.
C12_SubformUnderOwnForm ==
    prog = "OFK" =>
        \A j \in DOMAIN files :
            OutputName(files[j]) \in DOMAIN written =>
                LET doc == written[OutputName(files[j])]
                    book == disk[files[j]]
                IN /\ \A m, n \in DocChildren(doc, Root) :
                        doc.nodes[m].tag = doc.nodes[n].tag => m = n
                   /\ \A s \in Subforms(book) :
                        /\ \E i \in SubformElements(doc) : doc.nodes[i].tag = book[s].sheet
                        /\ \A i \in SubformElements(doc) :
                              doc.nodes[i].tag = book[s].sheet =>
                                  doc.nodes[doc.nodes[i].parent].tag = book[s].formName

\* what the validation pass gives for a workbook read without an exception
ValidationOf(acc) ==
    IF acc.err = NoErr THEN OFKValidation(acc.dataframes, acc.columns_to_validate, 1)
    ELSE acc.err
\* the exception the validation pass of the workbook raises, or NoErr
OFKValidationError(book) == ValidationOf(OFKSheets(book))
\* the workbook is read, validated and built without an exception
BuildsFrom(acc) ==
    /\ acc.err = NoErr
    /\ ValidationOf(acc) = NoErr
    /\ Ok(OFKBuild(acc.dataframes, Fresh))
OFKValid(book) == BuildsFrom(OFKSheets(book))

ValidationErrors ==
    {"EmptyValueError", "IntegerValueError", "StringValueError",
     "LengthValueRequiredError", "AssertionError"}
\* the validation pass of the j-th workbook raises one of these
FailsValidation(j) ==
    /\ OFKSheets(disk[files[j]]).err = NoErr
    /\ OFKValidationError(disk[files[j]]).kind \in ValidationErrors
Logged(e) ==
    \E i \in DOMAIN log :
        log[i].kind = e.kind /\ log[i].msg = e.msg /\ log[i].via = "logger.error"
Returned == pc \in {"done", "validate_xml", "exit"}

\* C13: when the validation pass of a workbook raises EmptyValueError,
\* IntegerValueError, StringValueError, LengthValueRequiredError or
\* AssertionError, generateXML logs the error, writes no document for that
\* workbook, does not end there, and writes the document of every later
\* workbook that is valid.
C13_ValidationErrorSkipsWorkbook ==
    prog = "OFK" =>
        \A j \in DOMAIN files :
            FailsValidation(j) =>
                /\ NotWritten(j)
                /\ ~(pc = "raised" /\ idx = j)
                /\ idx > j => Logged(OFKValidationError(disk[files[j]]))
                /\ Returned =>
                      \A n \in DOMAIN files :
                          (n > j /\ OFKValid(disk[files[n]])) => ~NotWritten(n)

\* the first workbook failed validation and the second one is written
C13_Witness ==
    /\ prog = "OFK"
    /\ Len(files) >= 2
    /\ FailsValidation(1)
    /\ OFKValid(disk[files[2]])
    /\ ~NotWritten(2)
    /\ Logged(OFKValidationError(disk[files[1]]))

----------------------------------------------------------------------------
(* The schema location                                                     *)

\* the attribute of the root that names the schema
SchemaLocationKey == IF prog = "OFK" THEN "xsi:schemaLocation" ELSE "xsi:noNamespaceSchemaLocation"
\* what the header of the running script gives that attribute on date d
SchemaLocationOn(d) ==
    CASE prog = "AIFM" -> AIFMSchemaLocation
      [] prog = "AIF" -> AIFSchemaLocation
      [] prog = "OFK" -> OFKSchemaLocation(d)

\* C14: the schema-location attribute of every document written is the one
\* the generator gives on every other date as well: it names one fixed XSD
\* file, whatever the date of generation.
C14_SchemaLocationFixed ==
    \A f \in DOMAIN written :
        \A d \in OFKClock :
            /\ HasKey(written[f].root.attrs, SchemaLocationKey)
            /\ Get(written[f].root.attrs, SchemaLocationKey) = SchemaLocationOn(d)

----------------------------------------------------------------------------
(* A second run on the same sheet                                          *)

\* what the script gives for sheet t alone on date d
BodyOn(t, d) == IF prog = "AIFM" THEN AIFMBody(t, d) ELSE AIFBody(t, d)

RECURSIVE Without(_, _)
\* the attributes other than key
Without(attrs, key) ==
    IF attrs = <<>> THEN <<>>
    ELSE (IF Head(attrs)[1] = key THEN <<>> ELSE <<Head(attrs)>>) \o Without(Tail(attrs), key)
\* two documents that differ at most in CreationDateAndTime
SameButCreation(x, y) ==
    /\ x.nodes = y.nodes
    /\ x.root.tag = y.root.tag
    /\ Without(x.root.attrs, "CreationDateAndTime") = Without(y.root.attrs, "CreationDateAndTime")

\* the first file of the list has a document that was made from it
FirstFileWritten ==
    /\ files # <<>>
    /\ ~NotWritten(1)
    /\ prog = "AIF" => Len(files) = 1

----------------------------------------------------------------------------
(* Boolean flags                                                           *)

FlagTags == {"LastReportingFlag", "ShareClassFlag"}
\* the cell Input_1 of the row of sheet t that has the tag
FlagCell(t, tag) == In(RowsByTag(t, {tag})[1], 1)

\* C16: in every document convert_to_xml or aif_xml wrote, each element
\* LastReportingFlag and ShareClassFlag has as its text the lowercase form of
\* the cell it was made from, however that cell is capitalised.
C16_FlagsLowercase ==
    prog \in {"AIFM", "AIF"} =>
        \A j \in DOMAIN files :
            (~NotWritten(j) /\ (prog = "AIF" => j = Len(files))) =>
                LET doc == written[OutputName(files[j])] IN
                \A i \in DOMAIN doc.nodes :
                    doc.nodes[i].tag \in FlagTags =>
                        doc.nodes[i].text =
                            Lower(Text(FlagCell(disk[files[j]], doc.nodes[i].tag)))

----------------------------------------------------------------------------
(* The identifiers of aif_xml                                              *)

\* a cell that holds something other than blanks
IsSet(x) == Text(x) # <<>>
\* the document has an element tag under an AIFIdentification element
Identifies(doc, tag) ==
    \E i \in DOMAIN doc.nodes :
        /\ doc.nodes[i].tag = tag
        /\ doc.nodes[i].parent # Root
        /\ doc.nodes[doc.nodes[i].parent].tag = "AIFIdentification"
\* exactly one of ReportingMemberState (row 31) and AIFNationalCode (row 32)
\* of the sheet is set
OneOfPairSet(t) == IsSet(Cell(t, 31)) # IsSet(Cell(t, 32))

\* C17: a document aif_xml wrote identifies the AIF by both ReportingMemberState
\* and AIFNationalCode or by neither, and a sheet with exactly one of the two
\* set gets no document: the run ends at it with a ConditionalError.
C17_IdentifierPair ==
    prog = "AIF" =>
        \A j \in DOMAIN files :
            /\ (~NotWritten(j) /\ j = Len(files)) =>
                  (Identifies(written[OutputName(files[j])], "ReportingMemberState")
                   <=> Identifies(written[OutputName(files[j])], "AIFNationalCode"))
            /\ OneOfPairSet(disk[files[j]]) =>
                  /\ NotWritten(j)
                  /\ idx <= j
                  /\ (Failed /\ idx = j) => Last(log).kind = "ConditionalError"

----------------------------------------------------------------------------
(* The investment strategies of aif_xml                                    *)

\* PredominantAIFType (row 57) is filled and is neither "HFND" nor "PEQF"
OtherAIFType(t) ==
    /\ NotEmpty(Cell(t, 57))
    /\ ~PyEq(Cell(t, 57), LitHFND)
    /\ ~PyEq(Cell(t, 57), LitPEQF)
\* the positions of the loop body after the strategy section
AfterStrategy ==
    {"hft", "instruments", "navFocus", "aumFocus", "exposures", "concentrations",
     "typicalSize", "markets", "investors", "next"}

----------------------------------------------------------------------------
(* The main instruments of aif_xml                                         *)

\* the rows m1 .. m5 of the sheet, in sheet order
MainInstrumentRows(t) == RowsByTag(t, TagRange("m", 1, 6))
\* the elements of the AII block, from the cells Input_4 .. Input_8
AIITags == <<"AIIExchangeCode", "AIIDerivativeType", "AIIPutCallIdentifier",
             "AIIExpiryDate", "AIIStrikePrice">>
IsAII(r) == PyEq(In(r, 1), LitAII)
\* the AII block the row asks for, as the children of element a
AIIBlock(r, a) ==
    [i \in DOMAIN AIITags |-> [tag |-> AIITags[i], text |-> Text(In(r, 3 + i)), parent |-> a]]
\* the elements MainInstrumentTraded of a document, in document order
IndicesOf(ns, tag) == SelectSeq([i \in DOMAIN ns |-> i], LAMBDA i : ns[i].tag = tag)
ChildrenOf(doc, e) == SelectSeq(doc.nodes, LAMBDA n : n.parent = e)
\* element e of the document holds exactly the AII block of row r, or no
\* AII element at all when r is no AII row
AIIAsRowAsks(doc, e, r) ==
    LET blocks == {i \in DOMAIN doc.nodes :
                      doc.nodes[i].parent = e /\ doc.nodes[i].tag = "AIIInstrumentIdentification"}
    IN IF IsAII(r)
       THEN /\ Cardinality(blocks) = 1
            /\ \A a \in blocks : ChildrenOf(doc, a) = AIIBlock(r, a)
       ELSE /\ blocks = {}
            /\ \A i \in DOMAIN doc.nodes :
                  doc.nodes[i].parent = e =>
                      \A k \in DOMAIN AIITags : doc.nodes[i].tag # AIITags[k]

\* the row has nothing wrong outside its AII cells
FineOutsideAII(r) ==
    PyEq(r.XMLDescription, LitNTA_NTA_NOTA)
    \/ /\ NotEmpty(In(r, 1)) /\ NotEmpty(In(r, 2))
       /\ PyEq(In(r, 1), LitISIN) => NotEmpty(In(r, 3))
\* an AII row with an AII cell left empty
AIIGap(r) == IsAII(r) /\ \E k \in DOMAIN AIITags : IsEmpty(In(r, 3 + k))
FirstGap(r) == AIITags[CHOOSE k \in DOMAIN AIITags :
                          IsEmpty(In(r, 3 + k)) /\ \A h \in 1..(k - 1) : NotEmpty(In(r, 3 + h))]
\* the message for the first AII cell left empty in the sheet, when the
\* main-instrument rows have nothing else wrong
HasAIIGap(t) ==
    /\ \A i \in DOMAIN MainInstrumentRows(t) : FineOutsideAII(MainInstrumentRows(t)[i])
    /\ \E i \in DOMAIN MainInstrumentRows(t) : AIIGap(MainInstrumentRows(t)[i])
FirstGapMessage(t) ==
    FirstGap(MainInstrumentRows(t)[
        CHOOSE i \in DOMAIN MainInstrumentRows(t) :
            /\ AIIGap(MainInstrumentRows(t)[i])
            /\ \A h \in 1..(i - 1) : ~AIIGap(MainInstrumentRows(t)[h])])
    \o " field cannot empty"

\* C19: in a document aif_xml wrote, the element of each row m1 .. m5 holds
\* AIIExchangeCode, AIIDerivativeType, AIIPutCallIdentifier, AIIExpiryDate and
\* AIIStrikePrice exactly when the row's InstrumentCodeType is AII; a sheet
\* with one of them empty in an AII row gets no document, and the error
\* reported in the main-instruments section is the EmptyValueError of the
\* first such field.
C19_AIIIdentification ==
    prog = "AIF" =>
        \A j \in DOMAIN files :
            /\ (~NotWritten(j) /\ j = Len(files)) =>
                  LET doc == written[OutputName(files[j])]
                      traded == IndicesOf(doc.nodes, "MainInstrumentTraded")
                      rows == MainInstrumentRows(disk[files[j]])
                  IN /\ Len(traded) = Len(rows)
                     /\ \A k \in DOMAIN rows : AIIAsRowAsks(doc, traded[k], rows[k])
            /\ HasAIIGap(disk[files[j]]) =>
                  /\ NotWritten(j)
                  /\ idx <= j
                  /\ (Failed /\ idx = j /\ HasTag("MainInstrumentsTraded")) =>
                        /\ Last(log).kind = "EmptyValueError"
                        /\ Last(log).msg = FirstGapMessage(disk[files[j]])

\* a run that ended in the main-instruments section at an AII row with an
\* AII cell left empty
C19_Witness ==
    /\ prog = "AIF"
    /\ Failed
    /\ HasAIIGap(disk[files[idx]])
    /\ HasTag("MainInstrumentsTraded")
    /\ Last(log).msg = FirstGapMessage(disk[files[idx]])

----------------------------------------------------------------------------
(* The validators validate_XML_AIFM, validate_XML_AIF, validate_XML_OFKFiles *)

\* what the validator logs for one call
ValidatorEntry(c) ==
    IF c.is_valid
    THEN [kind |-> "validated",
          msg |-> FileText(c.file) \o " has successfully been validated!",
          via |-> "logger.debug"]
    ELSE [kind |-> "invalid",
          msg |-> "Validation for " \o FileText(c.file) \o " was unsuccessful!",
          via |-> "logger.error"]
\* the entries of the log the validator wrote
ValidatorLog == SelectSeq(log, LAMBDA e : e.kind \in {"validated", "invalid"})

----------------------------------------------------------------------------
(* The first error of convert_to_xml                                       *)

\* elements that only the section makes: the trace of its evaluation
AIFMSectionTags ==
    <<{}, {"AIFMRecordInfo"}, {"LastReportingFlag"},
      {"AIFMReportingCode", "AIFMJurisdiction", "AIFMName", "AIFMEEAFlag",
       "AIFMNoReportingFlag"},
      {"AIFMCompleteDescription"}, {"AIFMPrincipalMarkets"},
      {"AIFMPrincipalInstruments"}, {"AUMAmountInEuro", "AIFMBaseCurrencyDescription"}>>
\* the entries of the log that the generator wrote
GeneratorLog == SelectSeq(log, LAMBDA e : e.kind \notin {"validated", "invalid"})

\* C21: when convert_to_xml fails on a file, it has reported exactly one
\* error, the one of the first section in the order of the code that the
\* sheet violates, however many sections the sheet violates; no element of
\* a later section was made and no document is written for the file.
C21_FirstErrorOnly ==
    (prog = "AIFM" /\ idx \in DOMAIN files /\ GeneratorLog # <<>>) =>
        LET errs == AIFMSectionErrors(disk[files[idx]], today)
            k == FirstViolated(errs)
        IN /\ ViolatedSections(errs) # {}
           /\ Len(GeneratorLog) = 1
           /\ GeneratorLog[1] = Report(errs[k])
           /\ NotWritten(idx)
           /\ pc \in {"done", "validate_xml", "exit"}
           /\ (k > 1 \/ idx = 1) =>
                 \A i \in DOMAIN nodes :
                     \A h \in (k + 1)..Len(AIFMSectionTags) :
                         nodes[i].tag \notin AIFMSectionTags[h]

\* convert_to_xml returned on a sheet that violates three sections or more
C21_Witness ==
    /\ prog = "AIFM"
    /\ Failed
    /\ Cardinality(ViolatedSections(AIFMSectionErrors(df, today))) >= 3
    /\ Len(log) = 1

----------------------------------------------------------------------------
(* An empty list of files                                                  *)

NoFilesFound ==
    Err("NoFilesFoundError",
        "No excel files selected. Specify path to excel document and try again!")

\* C22: convert_to_xml and aif_xml called with an empty list report
\* NoFilesFoundError and nothing else, read no sheet and write no document.
C22_NoFilesFound ==
    (prog \in {"AIFM", "AIF"} /\ files = <<>>) =>
        /\ pc # "start" => GeneratorLog = <<Report(NoFilesFound)>>
        /\ pc = "start" => log = <<>>
        /\ df = <<>>
        /\ idx = 0
        /\ nodes = <<>>
        /\ written = <<>>
        /\ pc \in {"start", "done", "validate_xml", "exit"}

\* the function returned from the call with the empty list
C22_Witness ==
    /\ prog \in {"AIFM", "AIF"}
    /\ files = <<>>
    /\ pc = "done"
    /\ Last(log).kind = "NoFilesFoundError"

----------------------------------------------------------------------------
(* The validated cells of a workbook                                       *)

\* position c (from 1) of the column list lies in cols[a:b] + ... / is cols[i]
PositionIn(c, cols, terms) ==
    \E j \in DOMAIN terms :
        IF terms[j].item THEN c = terms[j].lo + 1
        ELSE /\ c > PyIndex(terms[j].lo, Len(cols))
             /\ c <= (IF terms[j].open THEN Len(cols) ELSE PyIndex(terms[j].hi, Len(cols)))
\* the cell v in column c of a sheet fails what the branch of the sheet asks
\* of that column: a value, of type int or str, not negative, a Land of two
\* characters
CellFails(rule, cols, c, v) ==
    IF PositionIn(c, cols, rule.int)
    THEN \/ IsEmpty(v)
         \/ ~IsInt(v)
         \/ PositionIn(c, cols, rule.nonneg) /\ v.v < 0
    ELSE /\ PositionIn(c, cols, rule.str)
         /\ \/ IsEmpty(v)
            \/ ~IsStr(v)
            \/ rule.land /\ StripTag(cols[c]) = "Land" /\ Len(v.v) # 2
\* a cell of a column the sheet loop keeps fails its checks
SheetFails(s) ==
    /\ s.sheet # "Formulierenoverzicht"
    /\ Listed(OFKRules, s.sheet)
    /\ ~PositionsOutOfRange(OFKBlockedOf(s.sheet), Len(s.cols))
    /\ \E r \in DOMAIN s.rows : \E c \in DOMAIN s.cols :
          /\ s.cols[c] \notin LabelsAt(s.cols, OFKBlockedOf(s.sheet))
          /\ CellFails(FirstListed(OFKRules, s.sheet), s.cols, c, s.rows[r][c])
BookFails(book) == \E i \in DOMAIN book : SheetFails(book[i])

\* C23: generateXML builds and writes the tree of a workbook only when no
\* validated cell of any of its sheets is empty, of the wrong type, negative
\* where a non-negative value is required, or a Land that is not two
\* characters long.
C23_WrittenOnlyWhenValid ==
    prog = "OFK" =>
        /\ \A j \in DOMAIN files : BookFails(disk[files[j]]) => NotWritten(j)
        /\ (pc = "build" /\ idx \in DOMAIN files) => ~BookFails(disk[files[idx]])

----------------------------------------------------------------------------
(* The header attributes                                                   *)

\* one of the two header cells (rows 1 and 2, column Input_1) is empty
HeaderCellEmpty(t) == IsEmpty(Cell(t, 1)) \/ IsEmpty(Cell(t, 2))
\* the text of the EmptyValueError of the header, per script
HeaderMessages(t) ==
    {" " \o TagOf(t, 1) \o " and " \o TagOf(t, 2) \o " fields cannot be empty! ",
     TagOf(t, 1) \o " and " \o TagOf(t, 2) \o " fields cannot be empty!"}

\* C24: in both scripts a file with one of the two header cells empty gets
\* no document, and the run that fails on it reports the EmptyValueError
\* '... fields cannot be empty'.
C24_HeaderAttributesRequired ==
    prog \in {"AIFM", "AIF"} =>
        \A j \in DOMAIN files :
            HeaderCellEmpty(disk[files[j]]) =>
                /\ NotWritten(j)
                /\ (Failed /\ idx = j) =>
                      /\ Last(log).kind = "EmptyValueError"
                      /\ Last(log).msg \in HeaderMessages(disk[files[j]])

----------------------------------------------------------------------------
(* SubAssetType of the main instruments                                    *)

\* a row m1 .. m5 of the sheet has no SubAssetType
SubAssetTypeEmpty(t) ==
    \E i \in DOMAIN MainInstrumentRows(t) : IsEmpty(MainInstrumentRows(t)[i].XMLDescription)
\* a SubAssetType element of a main instrument without text
EmptySubAssetType(doc) ==
    \E i \in DOMAIN doc.nodes :
        /\ doc.nodes[i].tag = "SubAssetType"
        /\ doc.nodes[i].text = <<>>
        /\ doc.nodes[i].parent \in DOMAIN doc.nodes
        /\ doc.nodes[doc.nodes[i].parent].tag = "MainInstrumentTraded"

\* C25: in aif_xml a sheet with a row m1 .. m5 whose SubAssetType is empty
\* gets no document, and no written document holds a SubAssetType element
\* without text under MainInstrumentTraded.
C25_SubAssetTypeRequired ==
    prog = "AIF" =>
        /\ \A j \in DOMAIN files :
              SubAssetTypeEmpty(disk[files[j]]) => NotWritten(j)
        /\ \A f \in DOMAIN written : ~EmptySubAssetType(written[f])

----------------------------------------------------------------------------
(* QuestionNumber and AssumptionDescription                                *)

\* the document written for the j-th file is the tree of its sheet:
\* convert_to_xml writes in the loop, aif_xml after it
WrittenFrom(j) == ~NotWritten(j) /\ (prog = "AIF" => j = Len(files))
DocHas(doc, tag, text) ==
    \E i \in DOMAIN doc.nodes : doc.nodes[i].tag = tag /\ doc.nodes[i].text = text

\* C26: in both scripts the document of a sheet whose QuestionNumber and
\* AssumptionDescription are both filled (the description with at most 300
\* characters) holds the two elements with those values, and no document
\* holds an AssumptionDescription element without text.
C26_AssumptionPair ==
    prog \in {"AIFM", "AIF"} =>
        \A j \in DOMAIN files :
            WrittenFrom(j) =>
                LET t == disk[files[j]]
                    doc == written[OutputName(files[j])]
                IN /\ (/\ NotEmpty(Cell(t, 14))
                        /\ NotEmpty(Cell(t, 15))
                        /\ IsStr(Cell(t, 15))
                        /\ Len(Cell(t, 15).v) <= MaxAssumptionDescription) =>
                          /\ DocHas(doc, "QuestionNumber", Text(Cell(t, 14)))
                          /\ DocHas(doc, "AssumptionDescription", Text(Cell(t, 15)))
                   /\ ~DocHas(doc, "AssumptionDescription", <<>>)

----------------------------------------------------------------------------
(* The reporting period of generateXML                                     *)

\* YYYY-MM of the month before the date: two digits, 01 .. 12, December of
\* the year before for a date in January
PeriodBefore(now) ==
    IF now.month = 1
    THEN Digits(now.year - 1) \o <<"-">> \o Pad2(12)
    ELSE Digits(now.year) \o <<"-">> \o Pad2(now.month - 1)

\* C27: in every document generateXML wrote, rappOpmerkingen is 'OFK ' and
\* the schema location ends in 'OFK-K.' and '.xsd' around the period
\* YYYY-MM of the month before the generation date, MM in 01 .. 12.
C27_PeriodOfMonthBefore ==
    prog = "OFK" =>
        \A f \in DOMAIN written :
            /\ DocHas(written[f], "rappOpmerkingen", <<"O", "F", "K", " ">> \o PeriodBefore(today))
            /\ Get(written[f].root.attrs, "xsi:schemaLocation") =
                   OFKNamespace \o <<" ">> \o <<"O", "F", "K", "-", "K", ".">>
                   \o PeriodBefore(today) \o <<".", "x", "s", "d">>

----------------------------------------------------------------------------
(* The containers of the exposures and concentrations of aif_xml           *)

\* the document holds an element tag with the text of cell v beneath a
\* container ctag that is a child of element e
Beneath(doc, e, ctag, tag, v) ==
    \E i \in DOMAIN doc.nodes :
        /\ doc.nodes[i].tag = tag
        /\ doc.nodes[i].text = Text(v)
        /\ doc.nodes[i].parent \in DOMAIN doc.nodes
        /\ doc.nodes[doc.nodes[i].parent].tag = ctag
        /\ doc.nodes[doc.nodes[i].parent].parent = e
\* the identifiers of exposure row r are beneath the container of its
\* element e
ExposureInOwnRow(doc, e, r) ==
    ~PyEq(r.XMLDescription, LitNTA) =>
        /\ NotEmpty(In(r, 6)) =>
              Beneath(doc, e, "CounterpartyIdentification", "EntityIdentificationLEI", In(r, 6))
        /\ NotEmpty(In(r, 7)) =>
              Beneath(doc, e, "CounterpartyIdentification", "EntityIdentificationBIC", In(r, 7))
\* the same for concentration row r, and its market code
ConcentrationInOwnRow(doc, e, r) ==
    /\ PyEq(In(r, 2), LitMIC) =>
          Beneath(doc, e, "MarketIdentification", "MarketCode", In(r, 3))
    /\ NotEmpty(In(r, 7)) =>
          Beneath(doc, e, "CounterpartyIdentification", "EntityIdentificationLEI", In(r, 7))
    /\ NotEmpty(In(r, 8)) =>
          Beneath(doc, e, "CounterpartyIdentification", "EntityIdentificationBIC", In(r, 8))
ExposureRows(t) == RowsByTag(t, TagRange("p", 1, 11))
ConcentrationRows(t) == RowsByTag(t, TagRange("q", 1, 6))

\* C28: in every document aif_xml wrote, the EntityIdentificationBIC,
\* EntityIdentificationLEI and MarketCode of each row p1 .. p10 and q1 .. q5
\* lie beneath the CounterpartyIdentification or MarketIdentification of
\* the element of that row; and no run ends because such a value refers to
\* a container that was never made.
C28_ValuesInOwnContainer ==
    prog = "AIF" =>
        /\ \A j \in DOMAIN files :
              WrittenFrom(j) =>
                  LET doc == written[OutputName(files[j])]
                      ps == ExposureRows(disk[files[j]])
                      qs == ConcentrationRows(disk[files[j]])
                      pe == IndicesOf(doc.nodes, "PrincipalExposure")
                      qe == IndicesOf(doc.nodes, "PortfolioConcentration")
                  IN /\ Len(pe) = Len(ps)
                     /\ Len(qe) = Len(qs)
                     /\ \A k \in DOMAIN ps : ExposureInOwnRow(doc, pe[k], ps[k])
                     /\ \A k \in DOMAIN qs : ConcentrationInOwnRow(doc, qe[k], qs[k])
        /\ Failed =>
              \A name \in {"CounterpartyIdentification", "MarketIdentification"} :
                  Last(log).msg #
                      "local variable '" \o name \o "' referenced before assignment"

----------------------------------------------------------------------------
(* The prime brokers of aif_xml                                            *)

\* the rows 45-47 of the sheet
PrimeBrokerRows(t) == RowsById(t, StrRange(45, 48))
\* the filled prime-broker fields as <<tag, text>>, in sheet order
PrimeBrokerFields(t) ==
    LET rows == SelectSeq(PrimeBrokerRows(t), LAMBDA r : NotEmpty(In(r, 1)))
    IN [i \in DOMAIN rows |-> <<rows[i].xmlTags, Text(In(rows[i], 1))>>]
\* the children of element e as <<tag, text>>, in document order
ChildFields(doc, e) ==
    LET cs == ChildrenOf(doc, e) IN [i \in DOMAIN cs |-> <<cs[i].tag, cs[i].text>>]

\* C29: in every document aif_xml wrote, a PrimeBrokers element exists
\* exactly when a prime-broker field of rows 45-47 is filled, there is one
\* at most, and the children of its PrimeBrokerIdentification are the
\* filled fields of rows 45-47 with their values.
C29_PrimeBrokerFields ==
    prog = "AIF" =>
        \A j \in DOMAIN files :
            WrittenFrom(j) =>
                LET doc == written[OutputName(files[j])]
                    fields == PrimeBrokerFields(disk[files[j]])
                    brokers == IndicesOf(doc.nodes, "PrimeBrokers")
                    ids == IndicesOf(doc.nodes, "PrimeBrokerIdentification")
                IN /\ Len(brokers) = (IF fields = <<>> THEN 0 ELSE 1)
                   /\ Len(ids) = Len(brokers)
                   /\ \A k \in DOMAIN ids :
                         /\ doc.nodes[ids[k]].parent = brokers[k]
                         /\ ChildFields(doc, ids[k]) = fields

----------------------------------------------------------------------------
(* The schema of the generator and of the validator                        *)

\* the file name in a schema location: the text after the last blank, the
\* whole text when it has none ('namespace location' in xsi:schemaLocation)
AfterLastBlank(s) ==
    LET blanks == {i \in DOMAIN s : s[i] = " "}
    IN IF blanks = {} THEN s
       ELSE SubSeq(s, (CHOOSE i \in blanks : \A h \in blanks : h <= i) + 1, Len(s))
\* the XSD file the root of the document declares
DeclaredSchema(doc) == AfterLastBlank(Get(doc.root.attrs, SchemaLocationKey))

\* C30: every document is validated against the XSD file that its own root
\* declares in the schema-location attribute.
C30_DeclaredSchemaValidated ==
    \A i \in DOMAIN calls :
        DeclaredSchema(written[calls[i].file]) = calls[i].schema

====
